---- MODULE Spec2Model ----
(***************************************************************************)
(* Model of the file-ingestion pipeline of GMDI_prototype:                 *)
(*   parser/db_writer.py     DBWriter (connection lifecycle, bulk writes)  *)
(*   parser/file_manager.py  FileManager (archive / quarantine)            *)
(*   parser/file_watcher.py  FileUploadHandler (creation events)           *)
(*   parser/main.py          ParserService.process_file                    *)
(* The database, the filesystem and the event source are the environment:  *)
(* every call into them takes one of the outcomes they can produce.        *)
(***************************************************************************)
EXTENDS Integers, Sequences, FiniteSets, TLC

\* ------------------------------------------------------------------ bounds
MaxMetaRows == 2      \* rows of one metadata table handed to write_metadata
MaxRawRows == 1       \* rows of one rawdata table handed to write_rawdata
MaxRaw == 2           \* rows the cml_data table may hold in the model
MaxEvents == 3        \* creation events delivered to one FileUploadHandler
MaxUploads == 2       \* files placed in incoming/
MaxMade == 3          \* files the generator writes into source_dir
MaxConnects == 2      \* SFTPUploader.connect() calls
MaxNameLen == 3       \* characters of a filename handed to upload_file
MaxPathLen == 5       \* characters of a remote_path handed to SFTPUploader()
MaxRefRows == 3       \* rows of a table handed to validate_rawdata_references
MaxRefStored == 2     \* pairs the metadata table holds when it is called
MaxCoordRows == 2     \* rows of a metadata file handed to CSVMetadataParser.parse
MaxPieces == 3        \* pieces of a filename handed to get_parser
MaxSize == 2          \* bytes a producer writes into one file
MaxPuts == 2          \* direct upload_file / upload_dataframe_as_csv calls

\* ------------------------------------------------------- program constants
max_retries == 3
retry_backoff_seconds == 2
timeout == 10             \* _wait_for_file_ready(filepath, timeout=10)
sleeps_per_second == 2    \* time.sleep(0.5)

\* ------------------------------------------------------------ value domains
CmlIds == {"10001", "10002"}
SublinkIds == {"sublink_1"}
MetaVals == {"a1", "a2"}          \* the non-key columns of a metadata row
RawVals == {"r1"}                 \* time, rsl, tsl of a rawdata row

MetaRows == [cml_id : CmlIds, sublink_id : SublinkIds, vals : MetaVals]
RawCmlIds == {"10001"}            \* the link the rawdata files carry readings of
RawRows == [cml_id : RawCmlIds, sublink_id : SublinkIds, vals : RawVals]

Key(r) == <<r.cml_id, r.sublink_id>>
Keys == CmlIds \X SublinkIds

SeqsUpTo(S, n) == UNION {[1..k -> S] : k \in 0..n}

\* A DataFrame handed to the writer: its rows, whether it carries all the
\* columns write_metadata selects ("full") or only the parser's required
\* columns ("base"), and whether the database rejects its values (a
\* data-class error such as a type or constraint violation).
MetaFrames ==
    [rows : SeqsUpTo(MetaRows, MaxMetaRows), cols : {"full"}, bad : {FALSE}]
    \cup [rows : [1..1 -> MetaRows], cols : {"full"}, bad : {TRUE}]
    \cup [rows : [1..1 -> {CHOOSE r \in MetaRows : TRUE}], cols : {"base"}, bad : {FALSE}]
RawFrames == [rows : SeqsUpTo(RawRows, MaxRawRows), cols : {"full"}, bad : BOOLEAN]

NoFrame == [rows |-> <<>>, cols |-> "full", bad |-> FALSE]

\* File names, split where the code looks at them: what the parsers' patterns
\* test (the prefix and the suffix) and the rest.
FileName(prefix, suffix) == [prefix |-> prefix, rest |-> "1", suffix |-> suffix]
DataName == FileName("cml_data_", ".csv")
MetaName == FileName("cml_metadata_", ".csv")
OtherName == FileName("REPORT_", ".CSV")
TextName == FileName("notes_", ".txt")
DirName == FileName("subdir", "")
NoName == FileName("", "")
AllNames == {DataName, MetaName, OtherName, TextName}

\* What a file holds, as far as the parsers and the database tell it apart:
\* a table with rows, a header without rows, something parse() refuses, and
\* a table whose values the database refuses.
Bodies == {"rows", "empty", "invalid", "refused", "nolink"}
Files == [name : AllNames, id : 1..MaxUploads, body : Bodies]

\* The files producers upload: the body matters where a parser reads it.
Uploadable ==
    ({DataName} \X Bodies)
        \cup ({MetaName} \X {"rows", "empty", "invalid"})
        \cup ({OtherName} \X {"rows"})
NoFile == [name |-> NoName, id |-> 0, body |-> "none"]

\* (mutant) the patterns are matched case-sensitively
LowerNot(t) == t

\* str.lower() / re.IGNORECASE on the pieces of the names
Lower(t) ==
    CASE t = ".CSV" -> ".csv"
      [] t = "REPORT_" -> "report_"
      [] t = "CML_DATA_" -> "cml_data_"
      [] t = "Cml_Metadata_" -> "cml_metadata_"
      [] OTHER -> t

\* ------------------------------------------------------------------- state
VARIABLES
    conn,          \* DBWriter.conn: "none" (None), "open" (closed == 0), "closed"
    cml_metadata,  \* the cml_metadata table: a set of rows
    cml_data,      \* the cml_data table: rows in insertion order
    wpc,           \* position inside the running DBWriter call: idle/connect/run
    wcall,         \* the running (or last) DBWriter call: [op, df]
    attempt,       \* loop variable of DBWriter.connect
    execs,         \* times the operation (func) was run in this call
    raised,        \* what each of those runs raised ("" when it returned)
    trace,         \* what this call did so far, in order
    wres,          \* outcome of the last finished call
    wstart,        \* conn and tables when the call began
    lastWritten    \* per key: the values of the last committed write holding it

VARIABLES
    incoming,      \* files in incoming/: records [name, id, body]
    uploads,       \* files placed in incoming/ so far (the next file's id - 1)
    phase,         \* ParserService.start: "starting", "scan", "watching", "crashed",
                   \* then "stopping" (watcher.stop() called), "stopped" (it
                   \* returned), "down" (db_writer.close() done)
    scanTodo,      \* process_existing_files: files of the glob not yet visited
    queue,         \* creation events the observer has not dispatched yet
    delivered,     \* creation events emitted so far
    processing,    \* FileUploadHandler.processing
    hpc,           \* the dispatching thread: "idle", "callback", "scan_callback"
    hcur,          \* the path whose callback is running
    active,        \* per path: callbacks running that on_created dispatched
    calls,         \* per path: callback invocations so far
    placed         \* per path: files placed at that path so far

writerVars == <<conn, cml_metadata, cml_data, wpc, wcall, attempt, execs, raised,
                trace, wres, wstart, lastWritten>>
watcherVars == <<phase, scanTodo, queue, delivered, processing, hpc, hcur, active,
                 calls, placed>>
VARIABLES
    archived,      \* files in archived/<today>/
    quarantine,    \* files in quarantine/
    notes,         \* the .error.txt files in quarantine/: [name, orphan, text]
    spc,           \* position inside process_file: idle/connecting/write/writing/finished
    sfile,         \* filepath of the running process_file
    sdf,           \* what parser.parse returned for it
    pcall,         \* the last direct parser / registry call: input and result
    pf             \* what the process_file that just finished went through

VARIABLES
    fmres          \* the last direct FileManager call: what it was given and gave back

VARIABLES
    ucfg,          \* what the SFTPUploader was constructed with: [password, key]
    built,         \* whether main() constructed an uploader at all
    upw,           \* SFTPUploader._password: "none" (None) or "secret"
    sftp,          \* SFTPUploader.sftp: "none" (None), "open", "closed"
    pwWrites,      \* assignments made to _password after __init__
    established,   \* client.connect() has returned at least once
    connects,      \* connect() calls so far
    ulast,         \* the last connect() call: [exc, attempted, hosts, steps]
    usource,       \* files in source_dir: records [name, id]
    uarchive,      \* files in archive_dir
    uremote,       \* files stored under remote_path
    made,          \* files the generator has written so far
    upc,           \* position inside upload_pending_files: idle/batch/done
    pending,       \* pending_files of the running call
    idx,           \* index of the next file of pending_files
    uploaded_count,
    attempted,     \* what the call did so far: [file, put, move] per file
    ustart,        \* archive_dir when the call began
    ures           \* what the call returned or raised

VARIABLES
    remote_path,   \* SFTPUploader.remote_path: a string as its characters
    rpc,           \* the uploader under direct calls: "new", "failed", "built", "connected"
    rdirs,         \* directories on the server, by path
    rfiles,        \* remote paths a transfer call was issued for
    puts,          \* direct upload calls so far
    rlast          \* the last direct call: what it was given and gave back

VARIABLES
    fsize,         \* per path in incoming/: st_size of the file there
    last_size,     \* _wait_for_file_ready: last_size
    elapsed,       \* _wait_for_file_ready: sleeps since start
    wexit,         \* how the wait of the running on_created ended
    lastEnd        \* the last callback on_created ran: [n, outcome]

VARIABLES
    mpc,           \* the simulator's main(): "off", "setup", "connect", "loop"
    server         \* the SFTP server as the network shows it: "up", "down"

dirVars == <<incoming, uploads>>
svcVars == <<archived, quarantine, notes, spc, sfile, sdf, pcall, pf>>
uploaderVars == <<ucfg, built, upw, sftp, pwWrites, established, connects, ulast,
                  usource, uarchive, uremote, made, upc, pending, idx,
                  uploaded_count, attempted, ustart, ures>>
pathVars == <<remote_path, rpc, rdirs, rfiles, puts, rlast>>
handlerVars == <<fsize, last_size, elapsed, wexit, lastEnd>>
simVars == <<mpc, server>>
extVars == <<fmres, uploaderVars, pathVars, handlerVars, simVars>>

nonWriterVars == <<watcherVars, dirVars, svcVars, extVars>>

vars == <<writerVars, watcherVars, dirVars, svcVars, extVars>>

Ev(e, n) == [e |-> e, n |-> n]
Res(op, status, value, exc) == [op |-> op, status |-> status, value |-> value, exc |-> exc]

\* ------------------------------------------------------- DBWriter: helpers
\* DBWriter.is_connected
is_connected(c) == c = "open"

\* 2 ** k
RECURSIVE Pow2(_)
Pow2(k) == IF k = 0 THEN 1 ELSE 2 * Pow2(k - 1)

\* sleep_time of DBWriter.connect after failed attempt number a
sleep_time(a) == retry_backoff_seconds * Pow2(a - 1)

HasDuplicateKeys(rows) ==
    \E i, j \in 1..Len(rows) : i # j /\ Key(rows[i]) = Key(rows[j])

\* (mutant) ON CONFLICT DO NOTHING: a row already stored keeps its values
RECURSIVE UpsertDoNothing(_, _)
UpsertDoNothing(table, rows) ==
    IF rows = <<>> THEN table
    ELSE UpsertDoNothing(
             IF \E r \in table : Key(r) = Key(Head(rows))
             THEN table ELSE table \cup {Head(rows)},
             Tail(rows))

\* INSERT ... ON CONFLICT (cml_id, sublink_id) DO UPDATE SET <non-key> = EXCLUDED
RECURSIVE Upsert(_, _)
Upsert(table, rows) ==
    IF rows = <<>> THEN table
    ELSE Upsert({r \in table : Key(r) # Key(Head(rows))} \cup {Head(rows)},
                Tail(rows))

\* INSERT INTO cml_data ... VALUES %s
Append_rows(table, rows) == table \o rows

\* The statement of the call: is it refused by the database (data class)?
\* One INSERT .. ON CONFLICT DO UPDATE cannot touch the same row twice.
Rejected(call) ==
    \/ call.df.bad
    \/ call.op = "write_metadata" /\ HasDuplicateKeys(call.df.rows)

Snapshot == [conn |-> conn, meta |-> cml_metadata, data |-> cml_data]

RECURSIVE LastValOf(_, _, _)
LastValOf(rows, k, dflt) ==
    IF rows = <<>> THEN dflt
    ELSE LastValOf(Tail(rows), k, IF Key(Head(rows)) = k THEN Head(rows).vals ELSE dflt)

Absent == "absent"

\* ---------------------------------------------------- DBWriter: operations
NetOutcomes == {"ok", "drop", "late"}
ConnectionClass == {"OperationalError", "InterfaceError"}

\* DBWriter.connect, `if self.conn: return`: any held connection object counts
Holds(c) == c # "none"

\* (mutant) one attempt too many
MoreAttemptsOffByOne(a) == a <= max_retries

\* DBWriter.connect, `if attempt < self.max_retries` (sleep and go on)
MoreAttempts(a) == a < max_retries

\* (mutant) the retry is itself retried
RetriesEveryRun(exc, run) == exc \in ConnectionClass

\* (mutant) `except Exception`: any error of the first run is retried
RetriesAnyError(exc, run) == exc # "" /\ run = 1

\* DBWriter._with_connection_retry: the except clause catches the
\* connection-class errors of the first run only; the second run is outside
\* any try.
Retries(exc, run) == exc \in ConnectionClass /\ run = 1

\* (mutant) only a missing connection is replaced, a closed one is used
NeedsReconnectOnlyNone(c) == c = "none"

\* DBWriter._ensure_connected
NeedsReconnect(c) == ~is_connected(c)

\* DBWriter.connect() up to its first attempt
DBWriter_connect ==
    /\ wpc = "idle"
    /\ wcall' = [op |-> "connect", df |-> NoFrame]
    /\ wstart' = Snapshot
    /\ execs' = 0
    /\ raised' = <<>>
    /\ trace' = <<>>
    /\ IF Holds(conn)
       THEN /\ wpc' = "done"
            /\ attempt' = 0
            /\ wres' = Res("connect", "ok", 0, "")
       ELSE /\ wpc' = "connect"
            /\ attempt' = 1
            /\ wres' = Res("connect", "running", 0, "")
    /\ UNCHANGED <<conn, cml_metadata, cml_data, lastWritten>>

CallConnect == DBWriter_connect /\ UNCHANGED nonWriterVars

\* One iteration of the loop of DBWriter.connect: _attempt_connect succeeds
\* or raises.
AttemptConnect(ok) ==
    /\ wpc = "connect"
    /\ IF ok
       THEN /\ conn' = "open"
            /\ trace' = Append(trace, Ev("attempt", attempt))
            /\ attempt' = 0
            /\ IF wcall.op = "connect"
               THEN /\ wpc' = "done"
                    /\ wres' = Res("connect", "ok", 0, "")
               ELSE /\ wpc' = "run"
                    /\ wres' = wres
       ELSE IF MoreAttempts(attempt)
       THEN /\ trace' = trace \o <<Ev("attempt", attempt),
                                   Ev("sleep", sleep_time(attempt))>>
            /\ attempt' = attempt + 1
            /\ UNCHANGED <<conn, wpc, wres>>
       ELSE /\ trace' = trace \o <<Ev("attempt", attempt), Ev("raise", attempt)>>
            /\ attempt' = 0
            /\ wpc' = "done"
            /\ wres' = Res(wcall.op, "error", 0, "OperationalError")
            /\ UNCHANGED conn
    /\ UNCHANGED <<cml_metadata, cml_data, wcall, execs, raised, wstart, lastWritten>>
    /\ UNCHANGED nonWriterVars

\* DBWriter.close
DBWriter_close ==
    /\ wpc = "idle"
    /\ conn' = "none"
    /\ wcall' = [op |-> "close", df |-> NoFrame]
    /\ wstart' = Snapshot
    /\ execs' = 0
    /\ raised' = <<>>
    /\ attempt' = 0
    /\ trace' = <<>>
    /\ wres' = Res("close", "ok", 0, "")
    /\ wpc' = "done"
    /\ UNCHANGED <<cml_metadata, cml_data, lastWritten>>

CallClose == DBWriter_close /\ UNCHANGED nonWriterVars

\* (mutant) an empty table is written like any other
emptyNever(df) == FALSE

\* `df is None or df.empty`
empty(df) == df.rows = <<>>

\* DBWriter.write_metadata / write_rawdata up to the first run of the
\* operation: the empty-input return, the column selection df[cols], and
\* _ensure_connected at the head of _with_connection_retry.
DBWriter_write(op, df) ==
    /\ wpc = "idle"
    /\ op = "write_rawdata" => Len(cml_data) + 2 * Len(df.rows) <= MaxRaw
    /\ wcall' = [op |-> op, df |-> df]
    /\ wstart' = Snapshot
    /\ execs' = 0
    /\ raised' = <<>>
    /\ IF empty(df)
       THEN /\ wres' = Res(op, "ok", 0, "")
            /\ trace' = <<>>
            /\ attempt' = 0
            /\ wpc' = "done"
            /\ UNCHANGED conn
       ELSE IF df.cols # "full"
       THEN /\ wres' = Res(op, "error", 0, "KeyError")
            /\ trace' = <<>>
            /\ attempt' = 0
            /\ wpc' = "done"
            /\ UNCHANGED conn
       ELSE IF NeedsReconnect(conn)
       THEN /\ conn' = "none"
            /\ wpc' = "connect"
            /\ attempt' = 1
            /\ trace' = <<Ev("lost", 0)>>
            /\ wres' = Res(op, "running", 0, "")
       ELSE /\ wpc' = "run"
            /\ attempt' = 0
            /\ trace' = <<>>
            /\ wres' = Res(op, "running", 0, "")
            /\ UNCHANGED conn
    /\ UNCHANGED <<cml_metadata, cml_data, lastWritten>>

write_metadata(df) == DBWriter_write("write_metadata", df) /\ UNCHANGED nonWriterVars
write_rawdata(df) == DBWriter_write("write_rawdata", df) /\ UNCHANGED nonWriterVars

\* What one run of _execute_batch_insert raises, given what the network did:
\*   "ok"    the connection stays up,
\*   "drop"  it is lost before the server commits,
\*   "late"  it is lost after the server decided the statement (the commit was
\*           applied but its acknowledgement never arrives; or the statement
\*           was refused and the rollback finds the connection gone).
\* The rollback of the except block raises itself on a lost connection, and
\* that error replaces the one being handled.
\* On a connection that is not live the run fails before any statement:
\* cursor() of a closed connection raises InterfaceError, None has no cursor().
Raised(call, out, c) ==
    IF c = "none" THEN "AttributeError"
    ELSE IF ~is_connected(c) THEN "InterfaceError"
    ELSE IF out = "ok" THEN (IF Rejected(call) THEN "DataError" ELSE "")
    ELSE IF out = "drop" THEN "OperationalError"
    ELSE "InterfaceError"

\* Whether the server committed the batch in that run.
Committed(call, out, c) ==
    is_connected(c) /\ ~Rejected(call) /\ out \in {"ok", "late"}

\* What the run logs: execute_values, then commit or the rollback of the
\* except block (n = 1 when the rollback went through).
RunEvents(call, out, c) ==
    IF Raised(call, out, c) = "" THEN <<Ev("exec", 0), Ev("commit", 1)>>
    ELSE IF Raised(call, out, c) = "DataError"
    THEN <<Ev("exec", 0), Ev("rollback", 1)>>
    ELSE IF Committed(call, out, c)
    THEN <<Ev("exec", 0), Ev("commit", 0), Ev("rollback", 0)>>
    ELSE <<Ev("exec", 0), Ev("rollback", 0)>>

\* One run of func() inside _with_connection_retry, with the handling of
\* what it raises: return, reconnect-and-retry, or propagate.
RunOperation(out) ==
    /\ wpc = "run"
    /\ execs' = execs + 1
    /\ LET exc == Raised(wcall, out, conn)
           done == Committed(wcall, out, conn)
       IN /\ raised' = Append(raised, exc)
          /\ cml_metadata' = IF done /\ wcall.op = "write_metadata"
                             THEN Upsert(cml_metadata, wcall.df.rows)
                             ELSE cml_metadata
          /\ cml_data' = IF done /\ wcall.op = "write_rawdata"
                         THEN Append_rows(cml_data, wcall.df.rows)
                         ELSE cml_data
          /\ lastWritten' = IF done /\ wcall.op = "write_metadata"
                            THEN [k \in Keys |->
                                    LastValOf(wcall.df.rows, k, lastWritten[k])]
                            ELSE lastWritten
          /\ IF exc = ""
             THEN /\ wpc' = "done"
                  /\ wres' = Res(wcall.op, "ok", Len(wcall.df.rows), "")
                  /\ trace' = trace \o RunEvents(wcall, out, conn)
                  /\ UNCHANGED <<conn, attempt>>
             ELSE IF Retries(exc, execs + 1)
             THEN /\ conn' = "none"
                  /\ wpc' = "connect"
                  /\ attempt' = 1
                  /\ trace' = trace \o RunEvents(wcall, out, conn)
                                    \o <<Ev("rollback", 0), Ev("discard", 0)>>
                  /\ wres' = wres
             ELSE /\ wpc' = "done"
                  /\ wres' = Res(wcall.op, "error", 0, exc)
                  /\ trace' = trace \o RunEvents(wcall, out, conn)
                  /\ conn' = IF exc \in ConnectionClass THEN "closed" ELSE conn
                  /\ UNCHANGED attempt
    /\ UNCHANGED <<wcall, wstart>>
    /\ UNCHANGED nonWriterVars

\* The call has returned (or raised) and its caller goes on: the record of
\* the call is dropped.
NoCall ==
    /\ wpc = "idle"
    /\ wcall = [op |-> "none", df |-> NoFrame]
    /\ attempt = 0
    /\ execs = 0
    /\ raised = <<>>
    /\ trace = <<>>
    /\ wres = Res("none", "none", 0, "")
    /\ wstart = [conn |-> "none", meta |-> {}, data |-> <<>>]

TakeResult ==
    /\ wpc = "done"
    /\ wpc' = "idle"
    /\ wcall' = [op |-> "none", df |-> NoFrame]
    /\ attempt' = 0
    /\ execs' = 0
    /\ raised' = <<>>
    /\ trace' = <<>>
    /\ wres' = Res("none", "none", 0, "")
    /\ wstart' = [conn |-> "none", meta |-> {}, data |-> <<>>]
    /\ UNCHANGED <<conn, cml_metadata, cml_data, lastWritten>>

Return == TakeResult /\ UNCHANGED nonWriterVars

NoOutcome ==
    [file |-> NoFile, fresh |-> FALSE, parsed |-> FALSE, written |-> FALSE,
     missing |-> FALSE, archive |-> "none", quarantine |-> "none",
     error |-> ""]

\* The service part of the state when no process_file is running.
\* No parser has been called directly.
NoParse == [op |-> "none", arg |-> <<>>, df |-> <<>>, error |-> "", ret |-> ""]

ServiceIdle ==
    /\ archived = {}
    /\ quarantine = {}
    /\ notes = {}
    /\ spc = "idle"
    /\ sfile = NoFile
    /\ sdf = NoFrame
    /\ pcall = NoParse
    /\ pf = NoOutcome

\* No direct FileManager call has been made.
NoResult ==
    [op |-> "none", file |-> NoFile, existed |-> FALSE, fs |-> "none",
     note |-> FALSE, ret |-> [dir |-> "none", name |-> NoName, suffix |-> ""],
     exc |-> "",
     before |-> [incoming |-> {}, archived |-> {}, quarantine |-> {}, notes |-> {}]]

FileManagerIdle == fmres = NoResult

NoBatch == [value |-> 0, exc |-> "", returned |-> FALSE]

\* The uploader part of the state when no simulator is running.
UploaderIdle ==
    /\ ucfg = [password |-> FALSE, key |-> "none"]
    /\ built = FALSE
    /\ upw = "none"
    /\ sftp = "none"
    /\ pwWrites = 0
    /\ established = FALSE
    /\ connects = 0
    /\ ulast = [exc |-> "", attempted |-> FALSE, hosts |-> "none", steps |-> <<>>]
    /\ usource = {}
    /\ uarchive = {}
    /\ uremote = {}
    /\ made = 0
    /\ upc = "idle"
    /\ pending = <<>>
    /\ idx = 0
    /\ uploaded_count = 0
    /\ attempted = <<>>
    /\ ustart = {}
    /\ ures = NoBatch

\* No direct call on an uploader has been made.
NoDirectCall ==
    [op |-> "none", arg |-> <<>>, given |-> FALSE, exc |-> "", ret |-> <<>>,
     mkdirs |-> <<>>, before |-> {}]

PathsIdle ==
    /\ remote_path = <<>>
    /\ rpc = "new"
    /\ rdirs = {}
    /\ rfiles = {}
    /\ puts = 0
    /\ rlast = NoDirectCall

NoEnd == [n |-> NoName, outcome |-> "none"]

\* No on_created has run.
HandlerIdle ==
    /\ fsize = [n \in AllNames |-> 0]
    /\ last_size = -1
    /\ elapsed = 0
    /\ wexit = "none"
    /\ lastEnd = NoEnd

\* The simulator's main() is not running.
SimulatorIdle ==
    /\ mpc = "off"
    /\ server = "up"

ExtIdle == FileManagerIdle /\ UploaderIdle /\ PathsIdle /\ HandlerIdle /\ SimulatorIdle

\* The watcher part of the state when no service is running.
WatcherIdle ==
    /\ phase = "starting"
    /\ scanTodo = {}
    /\ queue = <<>>
    /\ delivered = 0
    /\ processing = {}
    /\ hpc = "idle"
    /\ hcur = NoName
    /\ active = [n \in AllNames |-> 0]
    /\ calls = [n \in AllNames |-> 0]
    /\ placed = [n \in AllNames |-> 0]

\* ------------------------------------------------------ the writer by itself
InitWriter ==
    /\ conn = "none"
    /\ cml_metadata = {}
    /\ cml_data = <<>>
    /\ NoCall
    /\ lastWritten = [k \in Keys |-> Absent]
    /\ WatcherIdle
    /\ ServiceIdle
    /\ ExtIdle
    /\ incoming = {}
    /\ uploads = 0

NextWriter ==
    \/ CallConnect
    \/ CallClose
    \/ \E df \in MetaFrames : write_metadata(df)
    \/ \E df \in RawFrames : write_rawdata(df)
    \/ \E ok \in BOOLEAN : AttemptConnect(ok)
    \/ \E out \in NetOutcomes : RunOperation(out)
    \/ Return

SpecWriter == InitWriter /\ [][NextWriter]_vars

\* ------------------------------------------- FileUploadHandler / FileWatcher
\* ParserRegistry.get_supported_extensions
supported_extensions == {".csv", ".nc", ".h5", ".hdf5"}

\* `filepath.suffix.lower() in self.supported_extensions`
Supported(n) == Lower(n.suffix) \in supported_extensions

Names(dir) == {f.name : f \in dir}
WithoutName(dir, n) == {f \in dir : f.name # n}

Event(n, d) == [src_path |-> n, is_directory |-> d]

\* A producer writes a new file into incoming/.
Put(n, body) ==
    /\ n \notin Names(incoming)
    /\ uploads < MaxUploads
    /\ incoming' = incoming \cup {[name |-> n, id |-> uploads + 1, body |-> body]}
    /\ uploads' = uploads + 1

\* (mutant) the path is released only when the callback returned
ReleaseOnReturnOnly(set, n, outcome) ==
    IF outcome = "raise" THEN set ELSE set \ {n}

\* FileUploadHandler.on_created, the finally block: processing.discard(path)
Release(set, n, outcome) == set \ {n}

\* A producer writes a file into incoming/.  A running observer emits one
\* creation event for it; before watcher.start() nobody listens.
PlaceFile(n, body) ==
    /\ phase \in {"starting", "scan", "watching"}
    /\ phase = "watching" => delivered < MaxEvents
    /\ Put(n, body)
    /\ placed' = [placed EXCEPT ![n] = @ + 1]
    /\ IF phase = "watching"
       THEN queue' = Append(queue, Event(n, FALSE)) /\ delivered' = delivered + 1
       ELSE UNCHANGED <<queue, delivered>>
    /\ UNCHANGED <<phase, scanTodo, processing, hpc, hcur, active, calls>>
    /\ UNCHANGED <<writerVars, svcVars, extVars>>

\* The observer emits a further creation event for a path a file was placed
\* at: the handler is handed whatever sequence of events the platform emits.
RepeatedEvent(n) ==
    /\ phase = "watching"
    /\ placed[n] > 0
    /\ delivered < MaxEvents
    /\ queue' = Append(queue, Event(n, FALSE))
    /\ delivered' = delivered + 1
    /\ UNCHANGED <<phase, scanTodo, processing, hpc, hcur, active, calls, placed>>
    /\ UNCHANGED <<writerVars, dirVars, svcVars, extVars>>

\* A directory is created in incoming/.
DirectoryEvent ==
    /\ phase = "watching"
    /\ delivered < MaxEvents
    /\ queue' = Append(queue, Event(DirName, TRUE))
    /\ delivered' = delivered + 1
    /\ UNCHANGED <<phase, scanTodo, processing, hpc, hcur, active, calls, placed>>
    /\ UNCHANGED <<writerVars, dirVars, svcVars, extVars>>

\* ParserService.process_existing_files: the glob
Glob ==
    /\ phase = "starting"
    /\ phase' = "scan"
    /\ scanTodo' = {n \in Names(incoming) : Supported(n)}
    /\ UNCHANGED <<queue, delivered, processing, hpc, hcur, active, calls, placed>>
    /\ UNCHANGED <<writerVars, dirVars, svcVars, extVars>>

\* ParserService.process_existing_files: one iteration, self.process_file(f)
ScanNext(n) ==
    /\ phase = "scan"
    /\ hpc = "idle"
    /\ n \in scanTodo
    /\ scanTodo' = scanTodo \ {n}
    /\ IF n \in Names(incoming)
       THEN /\ hpc' = "scan_callback"
            /\ hcur' = n
            /\ calls' = [calls EXCEPT ![n] = @ + 1]
       ELSE UNCHANGED <<hpc, hcur, calls>>
    /\ UNCHANGED <<phase, queue, delivered, processing, active, placed>>
    /\ UNCHANGED <<writerVars, dirVars, svcVars, extVars>>

\* ParserService.start: FileWatcher(...).start() once the scan is over
StartWatcher ==
    /\ phase = "scan"
    /\ scanTodo = {}
    /\ hpc = "idle"
    /\ phase' = "watching"
    /\ UNCHANGED <<scanTodo, queue, delivered, processing, hpc, hcur, active, calls,
                   placed>>
    /\ UNCHANGED <<writerVars, dirVars, svcVars, extVars>>

\* FileUploadHandler.on_created up to the call of the callback, run by the
\* observer's one dispatching thread for the next event of its queue.
on_created ==
    /\ phase \in {"watching", "stopping"}
    /\ hpc = "idle"
    /\ queue # <<>>
    /\ queue' = Tail(queue)
    /\ LET event == Head(queue)
           filepath == event.src_path
       IN IF \/ event.is_directory
             \/ ~Supported(filepath)
             \/ filepath \in processing
          THEN UNCHANGED <<processing, hpc, hcur, active, calls>>
          ELSE /\ processing' = processing \cup {filepath}
               /\ hpc' = "callback"
               /\ hcur' = filepath
               /\ active' = [active EXCEPT ![filepath] = @ + 1]
               /\ calls' = [calls EXCEPT ![filepath] = @ + 1]
    /\ UNCHANGED <<phase, scanTodo, delivered, placed>>
    /\ UNCHANGED <<writerVars, dirVars, svcVars, extVars>>

\* (mutant) on_created lets the callback's exception through to the observer
PropagateAll(ph, caller, outcome) == IF outcome = "raise" THEN "crashed" ELSE ph

\* Where an exception of the callback goes: on_created catches and logs it,
\* process_existing_files lets it leave start().
Propagate(ph, caller, outcome) ==
    IF caller = "scan_callback" /\ outcome = "raise" THEN "crashed" ELSE ph

\* The callback (process_file) ends: it returned or raised, and it moved the
\* file out of incoming/ or left it there.  Under on_created the exception is
\* logged and the finally block runs; under the startup scan it leaves
\* process_existing_files and start().
CallbackEnds(outcome, moved) ==
    /\ hpc \in {"callback", "scan_callback"}
    /\ incoming' = IF moved THEN WithoutName(incoming, hcur) ELSE incoming
    /\ hpc' = "idle"
    /\ hcur' = NoName
    /\ phase' = Propagate(phase, hpc, outcome)
    /\ IF hpc = "callback"
       THEN /\ processing' = Release(processing, hcur, outcome)
            /\ active' = [active EXCEPT ![hcur] = @ - 1]
            /\ lastEnd' = [n |-> hcur, outcome |-> outcome]
       ELSE UNCHANGED <<processing, active, lastEnd>>
    /\ UNCHANGED <<scanTodo, queue, delivered, calls, placed, uploads>>
    /\ UNCHANGED <<fsize, last_size, elapsed, wexit>>
    /\ UNCHANGED <<writerVars, svcVars, fmres, simVars, uploaderVars, pathVars>>

\* ParserService.start, KeyboardInterrupt in the sleep loop: the finally
\* block calls watcher.stop(), which asks the observer to stop.  Until its
\* thread has looked at the request it may still take an event.
FileWatcher_stop ==
    /\ phase = "watching"
    /\ phase' = "stopping"
    /\ UNCHANGED <<scanTodo, queue, delivered, processing, hpc, hcur, active, calls,
                   placed>>
    /\ UNCHANGED <<writerVars, dirVars, svcVars, extVars>>

\* (mutant) stop() returns without waiting for the observer's thread
JoinedAlways(h) == TRUE

\* self.observer.join(): the observer's thread has left its loop, which it
\* does between two events, never inside a handler
Joined(h) == h = "idle"

\* FileWatcher.stop returns.
FileWatcher_stop_returns ==
    /\ phase = "stopping"
    /\ Joined(hpc)
    /\ phase' = "stopped"
    /\ UNCHANGED <<scanTodo, queue, delivered, processing, hpc, hcur, active, calls,
                   placed>>
    /\ UNCHANGED <<writerVars, dirVars, svcVars, extVars>>

\* ParserService.start, the rest of the finally block: self.db_writer.close()
ShutdownClose ==
    /\ phase = "stopped"
    /\ phase' = "down"
    /\ DBWriter_close
    /\ UNCHANGED <<scanTodo, queue, delivered, processing, hpc, hcur, active, calls,
                   placed>>
    /\ UNCHANGED <<dirVars, svcVars, extVars>>

InitWatcher ==
    /\ conn = "none"
    /\ cml_metadata = {}
    /\ cml_data = <<>>
    /\ NoCall
    /\ lastWritten = [k \in Keys |-> Absent]
    /\ WatcherIdle
    /\ ServiceIdle
    /\ ExtIdle
    /\ incoming = {}
    /\ uploads = 0

NextWatcher ==
    \/ \E n \in AllNames : PlaceFile(n, "rows")
    \/ \E n \in AllNames : RepeatedEvent(n)
    \/ DirectoryEvent
    \/ Glob
    \/ \E n \in AllNames : ScanNext(n)
    \/ StartWatcher
    \/ on_created
    \/ \E outcome \in {"return", "raise"}, moved \in BOOLEAN :
          CallbackEnds(outcome, moved)
    \/ FileWatcher_stop
    \/ FileWatcher_stop_returns
    \/ ShutdownClose

SpecWatcher == InitWatcher /\ [][NextWatcher]_vars

\* start() runs on: the scan loop takes its next file, the observer is
\* started, its thread dispatches the next event, and the callback comes back.
FairWatcher ==
    /\ SpecWatcher
    /\ WF_vars(Glob)
    /\ WF_vars(\E n \in AllNames : ScanNext(n))
    /\ WF_vars(StartWatcher)
    /\ WF_vars(on_created)
    /\ WF_vars(\E outcome \in {"return", "raise"}, moved \in BOOLEAN :
                  CallbackEnds(outcome, moved))

\* ------------------------------------------------ parsers and FileManager
\* A filename as the pieces the patterns tell apart; "\n" is a line feed.
NamePieces == {"cml_data_", "CML_DATA_", "cml_metadata_", "Cml_Metadata_",
               "1", ".csv", ".CSV", "\n"}
PieceNames == SeqsUpTo(NamePieces, MaxPieces)

\* self.parsers, each by its get_file_type(), and the literal head of its
\* FILE_PATTERN: ^cml_data_.*\.csv$ and ^cml_metadata_.*\.csv$
parsers == <<"rawdata", "metadata">>
FILE_PATTERN(p) == IF p = "rawdata" THEN "cml_data_" ELSE "cml_metadata_"

\* FILE_PATTERN.match(name) under re.IGNORECASE: the head, then `.*` (no line
\* feed), then .csv at the end of the name or before one last line feed
PatternMatches(head, name, last) ==
    /\ last >= 2
    /\ Lower(name[1]) = head
    /\ Lower(name[last]) = ".csv"
    /\ \A i \in 2..(last - 1) : name[i] # "\n"

can_parse(p, name) ==
    \/ PatternMatches(FILE_PATTERN(p), name, Len(name))
    \/ /\ Len(name) >= 3
       /\ name[Len(name)] = "\n"
       /\ PatternMatches(FILE_PATTERN(p), name, Len(name) - 1)

\* ParserRegistry.get_parser: `for p in self.parsers: if p.can_parse(..)`
RECURSIVE FirstParser(_, _)
FirstParser(ps, name) ==
    IF ps = <<>> THEN "none"
    ELSE IF can_parse(Head(ps), name) THEN Head(ps)
    ELSE FirstParser(Tail(ps), name)

get_parser(name) == FirstParser(parsers, name)

\* ParserRegistry.get_parser(filepath) for the files of the model: the
\* get_file_type() of the parser, "none" for None.
Parser(n) == get_parser(<<n.prefix, n.rest, n.suffix>>)

\* (mutant) no parse error stops process_file
ParseErrorNever(f) == FALSE

\* parser.parse(filepath): whether the error half of the pair it returns is
\* set.  The body "invalid" is a table whose header lacks a required column.
ParseError(f) == f.body = "invalid"

\* ... and the error string: f"Missing required columns: {missing}"
parse_error(f) == IF f.body = "invalid" THEN "Missing required columns" ELSE ""

\* The rows of the file as pd.read_csv reads them, and the cml_id cell of its
\* row: the body "nolink" is a rawdata table whose row has no cml_id.
FileRows(f) == IF f.body = "empty" THEN 0 ELSE 1
NaN == "NaN"
Cell(f) == IF f.body = "nolink" THEN NaN ELSE "10001"

\* Series.fillna(value)
fillna(cell, value) == IF cell = NaN THEN value ELSE cell

\* parser.parse(filepath): the DataFrame.  CSVMetadataParser keeps its
\* REQUIRED_COLUMNS only (`df.loc[:, self.REQUIRED_COLUMNS]`).
Frame(f) ==
    [rows |-> IF f.body = "empty" THEN <<>>
              ELSE IF Parser(f.name) = "rawdata"
              THEN <<[cml_id |-> fillna(Cell(f), "nan"), sublink_id |-> "sublink_1",
                      vals |-> "r1"]>>
              ELSE <<[cml_id |-> "10001", sublink_id |-> "sublink_1", vals |-> "a1"]>>,
     cols |-> IF Parser(f.name) = "rawdata" THEN "full" ELSE "base",
     bad |-> f.body = "refused"]

\* (mutant) every pair of df is reported, stored or not
MissingPairsAll(df, table) == {Key(df.rows[i]) : i \in 1..Len(df.rows)}

\* DBWriter.validate_rawdata_references: the pairs of df not in cml_metadata
MissingPairs(df, table) ==
    {Key(df.rows[i]) : i \in 1..Len(df.rows)} \ {Key(r) : r \in table}

\* ------------------------------- DBWriter.validate_rawdata_references alone
\* The identifiers of the tables handed to it, in the order of Python's str
Alphabetical == <<"10001", "10002", "nan", "sublink_1", "sublink_2">>
Ord(str) == CHOOSE i \in DOMAIN Alphabetical : Alphabetical[i] = str

\* Python's order on tuples of two strings
TupleLess(a, b) ==
    \/ Ord(a[1]) < Ord(b[1])
    \/ a[1] = b[1] /\ Ord(a[2]) < Ord(b[2])

\* sorted(list(set))
RECURSIVE sorted(_)
sorted(set) ==
    IF set = {} THEN <<>>
    ELSE LET least == CHOOSE x \in set : \A y \in set \ {x} : TupleLess(x, y)
         IN  <<least>> \o sorted(set \ {least})

RefRows == [cml_id : {"10001", "10002", "nan"},
            sublink_id : {"sublink_1", "sublink_2"}, vals : RawVals]
RefFrames == [rows : SeqsUpTo(RefRows, MaxRefRows), cols : {"full"}, bad : {FALSE}]
RefTables ==
    {{[cml_id |-> k[1], sublink_id |-> k[2], vals |-> "a1"] : k \in K} :
        K \in {K \in SUBSET {Key(r) : r \in RefRows} : Cardinality(K) <= MaxRefStored}}

\* DBWriter.validate_rawdata_references(df); select is what the SELECT of
\* get_existing_metadata_ids does: "ok", or "drop" when it raises.
validate_rawdata_references(df, select) ==
    /\ wpc = "idle"
    /\ wcall' = [op |-> "validate_rawdata_references", df |-> df]
    /\ wstart' = Snapshot
    /\ execs' = 0
    /\ raised' = <<>>
    /\ attempt' = 0
    /\ wpc' = "done"
    /\ IF df.rows = <<>>
       THEN /\ wres' = Res(wcall'.op, "ok", [ok |-> TRUE, missing |-> <<>>], "")
            /\ trace' = <<>>
            /\ UNCHANGED conn
       ELSE IF ~is_connected(conn)
       THEN /\ wres' = Res(wcall'.op, "error", 0, "RuntimeError")
            /\ trace' = <<>>
            /\ UNCHANGED conn
       ELSE IF select # "ok"
       THEN /\ wres' = Res(wcall'.op, "error", 0, "OperationalError")
            /\ trace' = <<Ev("select", 0)>>
            /\ conn' = "closed"
       ELSE /\ LET missing == sorted(MissingPairs(df, cml_metadata))
               IN  wres' = Res(wcall'.op, "ok",
                               [ok |-> Len(missing) = 0, missing |-> missing], "")
            /\ trace' = <<Ev("select", 0)>>
            /\ UNCHANGED conn
    /\ UNCHANGED <<cml_metadata, cml_data, lastWritten>>
    /\ UNCHANGED nonWriterVars

InitValidate ==
    /\ conn \in {"none", "open"}
    /\ cml_metadata \in RefTables
    /\ cml_data = <<>>
    /\ NoCall
    /\ lastWritten = [k \in Keys |-> Absent]
    /\ WatcherIdle
    /\ ServiceIdle
    /\ ExtIdle
    /\ incoming = {}
    /\ uploads = 0

NextValidate ==
    \/ \E df \in RefFrames, select \in {"ok", "drop"} :
          validate_rawdata_references(df, select)
    \/ Return

SpecValidate == InitValidate /\ [][NextValidate]_vars

\* What shutil.move, and shutil.copy2 after it, can do to one file.
FsOutcomes == {"moved", "copied", "failed"}
QuarantineOutcomes == [fs : FsOutcomes, note : BOOLEAN]

\* The source directory after move / copy2 of f
AfterMove(dir, f, fs) == IF fs = "moved" THEN dir \ {f} ELSE dir

\* The destination directory: dest = dir / filepath.name is replaced
Received(dir, f, fs) ==
    IF fs \in {"moved", "copied"} THEN WithoutName(dir, f.name) \cup {f} ELSE dir

\* What the two note formats of quarantine_file hold:
\*   f"Original file not found: {filepath}\nError: {error}\n"
\*   f"Quarantined at: {now}\nError: {error}\nOriginalPath: {filepath}\n"
NotFoundNote == {"Original file not found", "reason", "path"}
QuarantinedNote == {"timestamp", "reason", "path"}

\* note_path.write_text of <name>.error.txt or <name>.orphan.error.txt: a
\* note of that name is replaced
WithNote(set, n, orphan, text) ==
    {x \in set : ~(x.name = n /\ x.orphan = orphan)}
        \cup {[name |-> n, orphan |-> orphan, text |-> text]}

\* FileManager.archive_file raises: the source is gone, or move and copy
\* both failed
ArchiveRaises(f, fs) == f \notin incoming \/ fs = "failed"

\* ... and what it raises: FileNotFoundError, or, by the bare `raise` of the
\* inner except block, the error shutil.copy2 raised
ArchiveError(f, fs) ==
    IF f \notin incoming THEN "FileNotFoundError"
    ELSE IF fs = "failed" THEN "OSError"
    ELSE ""

Path(dir, n, suffix) == [dir |-> dir, name |-> n, suffix |-> suffix]
NoPath == Path("none", NoName, "")

\* FileManager.archive_file: return dest
ArchiveReturn(f, fs) ==
    IF ArchiveRaises(f, fs) THEN NoPath ELSE Path("archived", f.name, "")

\* FileManager.quarantine_file raises: the note of a missing source is
\* written outside any try
QuarantineError(f, q) == IF f \notin incoming /\ ~q.note THEN "OSError" ELSE ""

\* FileManager.quarantine_file: return note_path / return dest
QuarantineReturn(f, q) ==
    IF QuarantineError(f, q) # "" THEN NoPath
    ELSE IF f \notin incoming THEN Path("quarantine", f.name, ".error.txt")
    ELSE IF q.fs = "failed" THEN Path("quarantine", f.name, ".orphan")
    ELSE Path("quarantine", f.name, "")

\* FileManager.archive_file when it returns
archive_file(f, fs) ==
    /\ incoming' = AfterMove(incoming, f, fs)
    /\ archived' = Received(archived, f, fs)
    /\ UNCHANGED <<quarantine, notes>>

\* FileManager.quarantine_file
quarantine_file(f, q) ==
    /\ IF f \notin incoming
       THEN /\ notes' = IF q.note
                         THEN WithNote(notes, f.name, FALSE, NotFoundNote)
                         ELSE notes
            /\ UNCHANGED <<incoming, quarantine>>
       ELSE /\ incoming' = AfterMove(incoming, f, q.fs)
            /\ quarantine' = Received(quarantine, f, q.fs)
            /\ notes' = IF q.note
                         THEN WithNote(notes, f.name, q.fs = "failed",
                                       QuarantinedNote)
                         ELSE notes
    /\ UNCHANGED archived

\* --------------------------------------------- FileManager called directly
FmFiles == [name : {DataName, OtherName}, id : 1..MaxUploads, body : {"rows"}]

Dirs == [incoming |-> incoming, archived |-> archived, quarantine |-> quarantine,
         notes |-> notes]

\* A file appears in incoming/.
FM_Place(n) ==
    /\ Put(n, "rows")
    /\ UNCHANGED <<writerVars, watcherVars, svcVars, extVars>>

\* FileManager.archive_file(f), for a path that exists or not
FM_archive_file(f, fs) ==
    /\ fmres' = [op |-> "archive_file", file |-> f, existed |-> f \in incoming,
                 fs |-> fs, note |-> FALSE, ret |-> ArchiveReturn(f, fs),
                 exc |-> ArchiveError(f, fs), before |-> Dirs]
    /\ IF ArchiveRaises(f, fs)
       THEN UNCHANGED <<incoming, archived, quarantine, notes>>
       ELSE archive_file(f, fs)
    /\ UNCHANGED <<uploads, spc, sfile, sdf, pcall, pf, uploaderVars, pathVars, handlerVars,
                   simVars>>
    /\ UNCHANGED <<writerVars, watcherVars>>

\* FileManager.quarantine_file(f, error), for a path that exists or not
FM_quarantine_file(f, q) ==
    /\ fmres' = [op |-> "quarantine_file", file |-> f, existed |-> f \in incoming,
                 fs |-> q.fs, note |-> q.note, ret |-> QuarantineReturn(f, q),
                 exc |-> QuarantineError(f, q), before |-> Dirs]
    /\ quarantine_file(f, q)
    /\ UNCHANGED <<uploads, spc, sfile, sdf, pcall, pf, uploaderVars, pathVars, handlerVars,
                   simVars>>
    /\ UNCHANGED <<writerVars, watcherVars>>

InitFileManager ==
    /\ conn = "none"
    /\ cml_metadata = {}
    /\ cml_data = <<>>
    /\ NoCall
    /\ lastWritten = [k \in Keys |-> Absent]
    /\ WatcherIdle
    /\ ServiceIdle
    /\ ExtIdle
    /\ incoming = {}
    /\ uploads = 0

NextFileManager ==
    \/ \E n \in {DataName, OtherName} : FM_Place(n)
    \/ \E f \in FmFiles, fs \in FsOutcomes : FM_archive_file(f, fs)
    \/ \E f \in FmFiles, q \in QuarantineOutcomes : FM_quarantine_file(f, q)

SpecFileManager == InitFileManager /\ [][NextFileManager]_vars

\* ------------------------------- FileUploadHandler: the stabilization wait
\* on_created step by step: the filter, the polls of _wait_for_file_ready,
\* the dispatch.  The files here have a size that their producer changes.
WaitNames == {DataName, TextName}

Exists(n) == n \in Names(incoming)

\* A producer creates an empty file in incoming/; the observer emits its
\* creation event.
CreateFile(n) ==
    /\ phase = "watching"
    /\ delivered < MaxEvents
    /\ Put(n, "rows")
    /\ fsize' = [fsize EXCEPT ![n] = 0]
    /\ placed' = [placed EXCEPT ![n] = @ + 1]
    /\ queue' = Append(queue, Event(n, FALSE))
    /\ delivered' = delivered + 1
    /\ UNCHANGED <<phase, scanTodo, processing, hpc, hcur, active, calls>>
    /\ UNCHANGED <<last_size, elapsed, wexit, lastEnd>>
    /\ UNCHANGED <<writerVars, svcVars, fmres, simVars, uploaderVars, pathVars>>

\* The producer writes on.
WriteBytes(n) ==
    /\ Exists(n)
    /\ fsize[n] < MaxSize
    /\ fsize' = [fsize EXCEPT ![n] = @ + 1]
    /\ UNCHANGED <<last_size, elapsed, wexit, lastEnd>>
    /\ UNCHANGED <<writerVars, watcherVars, dirVars, svcVars, fmres, simVars, uploaderVars,
                   pathVars>>

\* The file is taken away while the handler has not dispatched it.
RemoveFile(n) ==
    /\ Exists(n)
    /\ hpc # "callback"
    /\ incoming' = WithoutName(incoming, n)
    /\ UNCHANGED <<uploads, handlerVars, simVars>>
    /\ UNCHANGED <<writerVars, watcherVars, svcVars, fmres, simVars, uploaderVars, pathVars>>

\* (mutant) a file that did not stabilize in time is dropped
DispatchesUnlessTimeout(reason) == reason # "timeout"

\* on_created ignores what _wait_for_file_ready found and goes on
Dispatches(reason) == TRUE

\* on_created after the wait: the processing check and the callback
Dispatch(n, reason) ==
    /\ wexit' = reason
    /\ IF ~Dispatches(reason) \/ n \in processing
       THEN /\ hpc' = "idle"
            /\ hcur' = NoName
            /\ UNCHANGED <<processing, active, calls>>
       ELSE /\ processing' = processing \cup {n}
            /\ hpc' = "callback"
            /\ hcur' = n
            /\ active' = [active EXCEPT ![n] = @ + 1]
            /\ calls' = [calls EXCEPT ![n] = @ + 1]

\* FileUploadHandler.on_created up to the wait loop
on_created_begins ==
    /\ phase = "watching"
    /\ hpc = "idle"
    /\ queue # <<>>
    /\ queue' = Tail(queue)
    /\ LET event == Head(queue)
           filepath == event.src_path
       IN IF event.is_directory \/ ~Supported(filepath)
          THEN UNCHANGED <<processing, hpc, hcur, active, calls, last_size, elapsed,
                           wexit>>
          ELSE IF ~Exists(filepath)
          THEN /\ Dispatch(filepath, "missing")
               /\ UNCHANGED <<last_size, elapsed>>
          ELSE /\ hpc' = "waiting"
               /\ hcur' = filepath
               /\ last_size' = -1
               /\ elapsed' = 0
               /\ wexit' = "none"
               /\ UNCHANGED <<processing, active, calls>>
    /\ UNCHANGED <<phase, scanTodo, delivered, placed, fsize, lastEnd>>
    /\ UNCHANGED <<writerVars, dirVars, svcVars, fmres, simVars, uploaderVars, pathVars>>

\* One iteration of the loop of _wait_for_file_ready, or its end
wait_for_file_ready ==
    /\ hpc = "waiting"
    /\ IF elapsed >= timeout * sleeps_per_second
       THEN /\ Dispatch(hcur, "timeout")
            /\ UNCHANGED <<last_size, elapsed>>
       ELSE IF Exists(hcur) /\ fsize[hcur] = last_size /\ fsize[hcur] > 0
       THEN /\ Dispatch(hcur, "stable")
            /\ UNCHANGED <<last_size, elapsed>>
       ELSE /\ last_size' = IF Exists(hcur) THEN fsize[hcur] ELSE last_size
            /\ elapsed' = elapsed + 1
            /\ UNCHANGED <<hpc, hcur, processing, active, calls, wexit>>
    /\ UNCHANGED <<phase, scanTodo, queue, delivered, placed, fsize, lastEnd>>
    /\ UNCHANGED <<writerVars, dirVars, svcVars, fmres, simVars, uploaderVars, pathVars>>

InitStabilize ==
    /\ conn = "none"
    /\ cml_metadata = {}
    /\ cml_data = <<>>
    /\ NoCall
    /\ lastWritten = [k \in Keys |-> Absent]
    /\ scanTodo = {}
    /\ queue = <<>>
    /\ delivered = 0
    /\ processing = {}
    /\ hpc = "idle"
    /\ hcur = NoName
    /\ active = [n \in AllNames |-> 0]
    /\ calls = [n \in AllNames |-> 0]
    /\ placed = [n \in AllNames |-> 0]
    /\ phase = "watching"
    /\ ServiceIdle
    /\ ExtIdle
    /\ incoming = {}
    /\ uploads = 0

NextStabilize ==
    \/ \E n \in WaitNames : CreateFile(n)
    \/ \E n \in WaitNames : WriteBytes(n)
    \/ \E n \in WaitNames : RemoveFile(n)
    \/ \E n \in WaitNames : RepeatedEvent(n)
    \/ DirectoryEvent
    \/ on_created_begins
    \/ wait_for_file_ready
    \/ \E outcome \in {"return", "raise"}, moved \in BOOLEAN :
          CallbackEnds(outcome, moved)

SpecStabilize == InitStabilize /\ [][NextStabilize]_vars

\* The observer's thread keeps running, time passes while it sleeps, and the
\* callback comes back.
FairStabilize ==
    /\ SpecStabilize
    /\ WF_vars(on_created_begins)
    /\ WF_vars(wait_for_file_ready)
    /\ WF_vars(\E outcome \in {"return", "raise"}, moved \in BOOLEAN :
                  CallbackEnds(outcome, moved))

\* ------------------------------------------------------------ SFTPUploader
\* Local file names, by what glob("*.csv"), sorted() and _sanitize_filename
\* look at.
LocalName(base, ext) == [base |-> base, ext |-> ext]
SortedNames ==
    <<LocalName("a", ".csv"), LocalName("b b", ".csv"), LocalName("c", ".csv"),
      LocalName("t", ".txt")>>
LocalNames == {SortedNames[i] : i \in DOMAIN SortedNames}
LocalFiles == [name : LocalNames, id : 1..MaxMade]

\* SFTPUploader._sanitize_filename raises ValueError: a character outside
\* [a-zA-Z0-9_.-], or a leading dot
Unsafe(n) == n.base = "b b"

\* SFTPUploader.get_pending_files: sorted(self.source_dir.glob("*.csv"))
RECURSIVE PendingFrom(_, _)
PendingFrom(dir, i) ==
    IF i > Len(SortedNames) THEN <<>>
    ELSE LET here == {f \in dir : f.name = SortedNames[i] /\ f.name.ext = ".csv"}
         IN (IF here = {} THEN <<>> ELSE <<CHOOSE f \in here : TRUE>>)
                \o PendingFrom(dir, i + 1)

get_pending_files(dir) == PendingFrom(dir, 1)

Configs == [password : BOOLEAN, key : {"none", "good", "bad"}]

\* main(): exactly one authentication method, else no uploader is built
ExactlyOne(cfg) == cfg.password # (cfg.key # "none")

\* SFTPUploader.connect: what it raises before client.connect, "" when it
\* goes on to connect
ConfigError(cfg, pw) ==
    IF cfg.key = "bad" THEN "ValueError"
    ELSE IF cfg.key = "good" THEN ""
    ELSE IF pw # "none" THEN ""
    ELSE "ValueError"

\* What client.connect, open_sftp and _ensure_remote_directory can do.
ConnectOutcomes == {"refused", "no_sftp", "no_dir", "ok"}

\* (mutant) the password is dropped as soon as it has been handed over
ClearedBeforeConnect(pw, out) == "none"

\* `if self._password: self._password = None` after client.connect returned
Cleared(pw, out) == IF out = "refused" THEN pw ELSE "none"

\* What client.load_host_keys(known_hosts_path) can do: load the file, raise
\* FileNotFoundError, or raise another error (a file that cannot be read).
HostKeyOutcomes == {"loaded", "missing", "unreadable"}

\* (mutant) unknown hosts are trusted when there is no known-hosts file
PolicyAutoAdd(hosts) ==
    IF hosts = "missing" THEN "AutoAddPolicy" ELSE "RejectPolicy"

\* client.set_missing_host_key_policy(paramiko.RejectPolicy())
Policy(hosts) == "RejectPolicy"

\* The calls connect() makes on the SSH client, in order, up to client.connect
ConnectSteps(hosts, error) ==
    <<"load_host_keys">>
        \o (IF hosts = "unreadable" THEN <<>> ELSE <<Policy(hosts)>>)
        \o (IF hosts = "unreadable" \/ error # "" THEN <<>> ELSE <<"connect">>)

\* client.connect under the policy installed: with no host key loaded the
\* server's key is unknown, and RejectPolicy makes connect raise SSHException.
Verified(hosts, out) ==
    IF hosts = "missing" /\ Policy(hosts) = "RejectPolicy" THEN "refused" ELSE out

\* SFTPUploader.connect
U_connect(o, hosts) ==
    /\ built
    /\ upc = "idle"
    /\ connects < MaxConnects
    /\ connects' = connects + 1
    /\ IF hosts = "unreadable" \/ ConfigError(ucfg, upw) # ""
       THEN /\ ulast' = [exc |-> IF hosts = "unreadable" THEN "OSError"
                                 ELSE ConfigError(ucfg, upw),
                         attempted |-> FALSE, hosts |-> hosts,
                         steps |-> ConnectSteps(hosts, ConfigError(ucfg, upw))]
            /\ UNCHANGED <<upw, sftp, pwWrites, established>>
       ELSE LET out == Verified(hosts, o) IN
            /\ ulast' = [exc |-> CASE out = "refused" -> "SSHException"
                                   [] out = "no_sftp" -> "SSHException"
                                   [] out = "no_dir" -> "OSError"
                                   [] OTHER -> "",
                         attempted |-> TRUE, hosts |-> hosts,
                         steps |-> ConnectSteps(hosts, "")]
            /\ upw' = Cleared(upw, out)
            /\ pwWrites' = IF upw' # upw THEN pwWrites + 1 ELSE pwWrites
            /\ established' = (established \/ out # "refused")
            /\ sftp' = IF out \in {"no_dir", "ok"} THEN "open" ELSE sftp
    /\ UNCHANGED <<ucfg, built, usource, uarchive, uremote, made, upc, pending, idx,
                   uploaded_count, attempted, ustart, ures>>
    /\ UNCHANGED <<writerVars, watcherVars, dirVars, svcVars, fmres, simVars, pathVars, handlerVars>>

\* SFTPUploader.close
U_close ==
    /\ built
    /\ upc = "idle"
    /\ sftp = "open"
    /\ sftp' = "closed"
    /\ UNCHANGED <<ucfg, built, upw, pwWrites, established, connects, ulast,
                   usource, uarchive, uremote, made, upc, pending, idx,
                   uploaded_count, attempted, ustart, ures>>
    /\ UNCHANGED <<writerVars, watcherVars, dirVars, svcVars, fmres, simVars, pathVars, handlerVars>>

\* CMLDataGenerator writes a file into source_dir.
Generate(n) ==
    /\ upc = "idle"
    /\ made < MaxMade
    /\ n \notin {f.name : f \in usource}
    /\ usource' = usource \cup {[name |-> n, id |-> made + 1]}
    /\ made' = made + 1
    /\ UNCHANGED <<ucfg, built, upw, sftp, pwWrites, established, connects, ulast,
                   uarchive, uremote, upc, pending, idx, uploaded_count, attempted,
                   ustart, ures>>
    /\ UNCHANGED <<writerVars, watcherVars, dirVars, svcVars, fmres, simVars, pathVars, handlerVars>>

\* What sftp.put can do on an open channel, and what shutil.move can do.
PutOutcomes == {"ok", "fail"}
MoveOutcomes == {"moved", "copied", "failed"}

\* SFTPUploader.upload_file: the exception it raises, "" when the file is on
\* the remote side
UploadError(f, put) ==
    IF sftp = "none" THEN "RuntimeError"
    ELSE IF Unsafe(f.name) THEN "ValueError"
    ELSE IF sftp = "closed" \/ put = "fail" THEN "SSHException"
    ELSE ""

\* (mutant) the file is archived whatever upload_file did
ArchiveAlways(err) == TRUE

\* shutil.move follows upload_file inside the same try block
ArchiveAfter(err) == err = ""

\* (mutant) the first failure ends the loop
AfterFileAbort(i, n, failed) == IF failed THEN n + 1 ELSE i + 1

\* every except clause of the loop ends in `continue`
AfterFile(i, n, failed) == i + 1

\* SFTPUploader.upload_pending_files up to the loop
upload_pending_files ==
    /\ built
    /\ upc = "idle"
    /\ pending' = get_pending_files(usource)
    /\ idx' = 1
    /\ uploaded_count' = 0
    /\ attempted' = <<>>
    /\ ustart' = uarchive
    /\ IF pending' = <<>>
       THEN /\ upc' = "done"
            /\ ures' = [value |-> 0, exc |-> "", returned |-> TRUE]
       ELSE /\ upc' = "batch"
            /\ ures' = NoBatch
    /\ UNCHANGED <<ucfg, built, upw, sftp, pwWrites, established, connects, ulast,
                   usource, uarchive, uremote, made>>
    /\ UNCHANGED <<writerVars, watcherVars, dirVars, svcVars, fmres, simVars, pathVars, handlerVars>>

\* One iteration of the loop of upload_pending_files; the last one returns.
UploadNext(put, mv) ==
    /\ upc = "batch"
    /\ idx <= Len(pending)
    /\ LET f == pending[idx]
           err == UploadError(f, put)
           moves == ArchiveAfter(err)
           moveErr == IF moves /\ mv # "moved" THEN "OSError" ELSE ""
           failed == err # "" \/ moveErr # ""
       IN /\ uremote' = IF err = "" THEN uremote \cup {f} ELSE uremote
          /\ uarchive' = IF moves /\ mv \in {"moved", "copied"}
                            THEN {g \in uarchive : g.name # f.name} \cup {f}
                            ELSE uarchive
          /\ usource' = IF moves /\ mv = "moved" THEN usource \ {f} ELSE usource
          /\ uploaded_count' = IF failed THEN uploaded_count ELSE uploaded_count + 1
          /\ attempted' = Append(attempted,
                                  [file |-> f, put |-> err,
                                   move |-> IF moves THEN mv ELSE "none"])
          /\ idx' = AfterFile(idx, Len(pending), failed)
          /\ IF idx' > Len(pending)
             THEN /\ upc' = "done"
                  /\ ures' = [value |-> uploaded_count', exc |-> "", returned |-> TRUE]
             ELSE UNCHANGED <<upc, ures>>
    /\ UNCHANGED <<ucfg, built, upw, sftp, pwWrites, established, connects, ulast,
                   made, pending, ustart>>
    /\ UNCHANGED <<writerVars, watcherVars, dirVars, svcVars, fmres, simVars, pathVars, handlerVars>>

\* The caller takes the count and the uploader is idle again.
BatchReturns ==
    /\ upc = "done"
    /\ upc' = "idle"
    /\ pending' = <<>>
    /\ idx' = 0
    /\ uploaded_count' = 0
    /\ attempted' = <<>>
    /\ ustart' = {}
    /\ ures' = NoBatch
    /\ UNCHANGED <<ucfg, built, upw, sftp, pwWrites, established, connects, ulast,
                   usource, uarchive, uremote, made>>
    /\ UNCHANGED <<writerVars, watcherVars, dirVars, svcVars, fmres, simVars, pathVars, handlerVars>>

InitUploader ==
    /\ conn = "none"
    /\ cml_metadata = {}
    /\ cml_data = <<>>
    /\ NoCall
    /\ lastWritten = [k \in Keys |-> Absent]
    /\ WatcherIdle
    /\ incoming = {}
    /\ uploads = 0
    /\ ServiceIdle
    /\ FileManagerIdle
    /\ HandlerIdle
    /\ PathsIdle
    /\ SimulatorIdle
    /\ ucfg \in Configs
    /\ built \in BOOLEAN
    /\ ~built => ~ExactlyOne(ucfg)
    /\ upw = IF ucfg.password THEN "secret" ELSE "none"
    /\ sftp = "none"
    /\ pwWrites = 0
    /\ established = FALSE
    /\ connects = 0
    /\ ulast = [exc |-> "", attempted |-> FALSE, hosts |-> "none", steps |-> <<>>]
    /\ usource = {}
    /\ uarchive = {}
    /\ uremote = {}
    /\ made = 0
    /\ upc = "idle"
    /\ pending = <<>>
    /\ idx = 0
    /\ uploaded_count = 0
    /\ attempted = <<>>
    /\ ustart = {}
    /\ ures = NoBatch

NextUploader ==
    \/ \E n \in LocalNames : Generate(n)
    \/ \E out \in ConnectOutcomes, hosts \in HostKeyOutcomes : U_connect(out, hosts)
    \/ U_close
    \/ upload_pending_files
    \/ \E put \in PutOutcomes, mv \in MoveOutcomes : UploadNext(put, mv)
    \/ BatchReturns

SpecUploader == InitUploader /\ [][NextUploader]_vars

\* ------------------------------------------------- the simulator's main()
\* main(): `if config["sftp"]["enabled"]` with exactly one authentication
\* method builds the uploader; with none or both no uploader exists.
main_build ==
    /\ mpc = "setup"
    /\ built' = ExactlyOne(ucfg)
    /\ mpc' = IF ExactlyOne(ucfg) THEN "connect" ELSE "loop"
    /\ UNCHANGED <<ucfg, upw, sftp, pwWrites, established, connects, ulast,
                   usource, uarchive, uremote, made, upc, pending, idx,
                   uploaded_count, attempted, ustart, ures, server>>
    /\ UNCHANGED <<writerVars, watcherVars, dirVars, svcVars, fmres, pathVars, handlerVars>>

\* What connect() meets: the known_hosts file is there, and client.connect
\* gets through exactly when the server can be reached.
Reached(srv) == IF srv = "up" THEN "ok" ELSE "refused"

\* main(): sftp_uploader.connect() inside the try block
main_connect ==
    /\ mpc = "connect"
    /\ connects = 0
    /\ U_connect(Reached(server), "loaded")

\* main(): `except Exception: ... sftp_uploader = None`
Kept(exc) == exc = ""

\* main(): connect() returned or raised, and main goes on to the loop
main_connected ==
    /\ mpc = "connect"
    /\ connects > 0
    /\ built' = Kept(ulast.exc)
    /\ mpc' = "loop"
    /\ UNCHANGED <<ucfg, upw, sftp, pwWrites, established, connects, ulast,
                   usource, uarchive, uremote, made, upc, pending, idx,
                   uploaded_count, attempted, ustart, ures, server>>
    /\ UNCHANGED <<writerVars, watcherVars, dirVars, svcVars, fmres, pathVars, handlerVars>>

\* main(): `if sftp_uploader: ... sftp_uploader.upload_pending_files()`, after
\* the metadata file was written and in every cycle that is due
main_upload ==
    /\ mpc = "loop"
    /\ upload_pending_files

\* One file of the batch: sftp.put succeeds when the server can be reached,
\* and the local move succeeds.
main_upload_next ==
    /\ mpc = "loop"
    /\ UploadNext(IF server = "up" THEN "ok" ELSE "fail", "moved")

\* main(): upload_pending_files returned its count, caught or not
main_upload_returns ==
    /\ mpc = "loop"
    /\ BatchReturns

\* The server cannot be reached any more; a session that was open is dead.
ServerDown ==
    /\ server = "up"
    /\ server' = "down"
    /\ sftp' = IF sftp = "open" THEN "closed" ELSE sftp
    /\ UNCHANGED <<ucfg, built, upw, pwWrites, established, connects, ulast,
                   usource, uarchive, uremote, made, upc, pending, idx,
                   uploaded_count, attempted, ustart, ures, mpc>>
    /\ UNCHANGED <<writerVars, watcherVars, dirVars, svcVars, fmres, pathVars, handlerVars>>

\* The server can be reached again.
ServerUp ==
    /\ server = "down"
    /\ server' = "up"
    /\ UNCHANGED <<uploaderVars, mpc>>
    /\ UNCHANGED <<writerVars, watcherVars, dirVars, svcVars, fmres, pathVars, handlerVars>>

InitSimulator ==
    /\ conn = "none"
    /\ cml_metadata = {}
    /\ cml_data = <<>>
    /\ NoCall
    /\ lastWritten = [k \in Keys |-> Absent]
    /\ WatcherIdle
    /\ incoming = {}
    /\ uploads = 0
    /\ ServiceIdle
    /\ FileManagerIdle
    /\ HandlerIdle
    /\ PathsIdle
    /\ ucfg \in Configs
    /\ built = FALSE
    /\ upw = IF ucfg.password THEN "secret" ELSE "none"
    /\ sftp = "none"
    /\ pwWrites = 0
    /\ established = FALSE
    /\ connects = 0
    /\ ulast = [exc |-> "", attempted |-> FALSE, hosts |-> "none", steps |-> <<>>]
    /\ usource = {}
    /\ uarchive = {}
    /\ uremote = {}
    /\ made = 0
    /\ upc = "idle"
    /\ pending = <<>>
    /\ idx = 0
    /\ uploaded_count = 0
    /\ attempted = <<>>
    /\ ustart = {}
    /\ ures = NoBatch
    /\ mpc = "setup"
    /\ server \in {"up", "down"}

NextSimulator ==
    \/ main_build
    \/ main_connect
    \/ main_connected
    \/ \E n \in LocalNames : Generate(n)
    \/ main_upload
    \/ main_upload_next
    \/ main_upload_returns
    \/ ServerDown
    \/ ServerUp

SpecSimulator == InitSimulator /\ [][NextSimulator]_vars

\* main() runs on: the setup goes through, the loop comes round to the next
\* upload that is due, and a batch goes through its files and returns.
FairSimulator ==
    /\ SpecSimulator
    /\ WF_vars(main_build)
    /\ WF_vars(main_connect)
    /\ WF_vars(main_connected)
    /\ WF_vars(main_upload)
    /\ WF_vars(main_upload_next)
    /\ WF_vars(main_upload_returns)

\* ------------------------------------- SFTPUploader: paths and file names
\* Strings are sequences of characters here, so that the checks of
\* _validate_remote_path and _sanitize_filename are computed on them.
NameChars == {"a", ".", "/", "\\", " ", "\n"}
PathChars == {"a", ".", "/", " ", "\n"}
FileNames == SeqsUpTo(NameChars, MaxNameLen)
RemotePaths == SeqsUpTo(PathChars, MaxPathLen)

\* The characters of [a-zA-Z0-9_.-] and of [a-zA-Z0-9/_.-] among those above
SafeNameChars == {"a", "."}
SafePathChars == {"a", ".", "/"}

Contains(t, c) == \E i \in DOMAIN t : t[i] = c

\* ".." in path
HasDotDot(t) == \E i \in 1..(Len(t) - 1) : t[i] = "." /\ t[i + 1] = "."

\* re.match(r"^[...]+$", t): one or more characters of the class up to the
\* end of the string, where $ also matches just before a final newline
re_match(class, t) ==
    LET body == IF Len(t) >= 2 /\ t[Len(t)] = "\n" THEN SubSeq(t, 1, Len(t) - 1)
                ELSE t
    IN /\ body # <<>>
       /\ \A i \in DOMAIN body : body[i] \in class

\* str.split("/")
RECURSIVE Split(_)
Split(t) ==
    IF ~Contains(t, "/") THEN <<t>>
    ELSE LET i == CHOOSE k \in DOMAIN t : t[k] = "/" /\ \A j \in 1..(k - 1) : t[j] # "/"
         IN <<SubSeq(t, 1, i - 1)>> \o Split(SubSeq(t, i + 1, Len(t)))

\* "/".join(comps)
RECURSIVE Join(_)
Join(comps) ==
    IF comps = <<>> THEN <<>>
    ELSE IF Len(comps) = 1 THEN comps[1]
    ELSE comps[1] \o <<"/">> \o Join(Tail(comps))

\* os.path.basename
basename(t) == LET parts == Split(t) IN parts[Len(parts)]

\* the loop of posixpath.normpath over the components
RECURSIVE NormComps(_, _, _)
NormComps(comps, new, rooted) ==
    IF comps = <<>> THEN new
    ELSE LET c == Head(comps)
             next == IF c = <<>> \/ c = <<".">> THEN new
                     ELSE IF c # <<".", ".">> THEN Append(new, c)
                     ELSE IF (~rooted /\ new = <<>>)
                               \/ (new # <<>> /\ new[Len(new)] = <<".", ".">>)
                          THEN Append(new, c)
                     ELSE IF new # <<>> THEN SubSeq(new, 1, Len(new) - 1)
                     ELSE new
         IN NormComps(Tail(comps), next, rooted)

\* os.path.normpath (posixpath): exactly two leading slashes are kept
normpath(t) ==
    IF t = <<>> THEN <<".">>
    ELSE LET starts(k) == Len(t) >= k /\ \A i \in 1..k : t[i] = "/"
             initial_slashes == IF ~starts(1) THEN 0
                                ELSE IF starts(2) /\ ~starts(3) THEN 2
                                ELSE 1
             joined == Join(NormComps(Split(t), <<>>, initial_slashes > 0))
             path == [i \in 1..initial_slashes |-> "/"] \o joined
         IN IF path = <<>> THEN <<".">> ELSE path

\* SFTPUploader._validate_remote_path: what it raises, "" when it returns
PathError(path) ==
    IF path = <<>> \/ path[1] # "/" THEN "ValueError: must be absolute"
    ELSE IF HasDotDot(path) THEN "ValueError: path traversal"
    ELSE IF ~re_match(SafePathChars, path) THEN "ValueError: invalid characters"
    ELSE ""

_validate_remote_path(path) == normpath(path)

\* SFTPUploader._sanitize_filename: what it raises, "" when it returns
FilenameError(filename) ==
    IF basename(filename) # filename \/ Contains(filename, "/")
          \/ Contains(filename, "\\")
    THEN "ValueError"
    ELSE IF ~re_match(SafeNameChars, basename(filename)) THEN "ValueError"
    ELSE IF basename(filename)[1] = "." THEN "ValueError"
    ELSE ""

_sanitize_filename(filename) == basename(filename)

\* Path(local_path).name for the local paths used here
LocalPaths == {<<"a">>, <<".", ".", "/", "a">>}
Path_name(local_path) == basename(local_path)

\* f"cml_data_{timestamp}.csv"
GeneratedName == <<"a", ".", "a">>

\* f"{self.remote_path}/{safe_filename}"
RemoteFile(name) == remote_path \o <<"/">> \o name

\* SFTPUploader.__init__: remote_path is validated and stored
SFTPUploader_init(path) ==
    /\ rpc = "new"
    /\ IF PathError(path) = ""
       THEN /\ remote_path' = _validate_remote_path(path)
            /\ rpc' = "built"
       ELSE /\ remote_path' = remote_path
            /\ rpc' = "failed"
    /\ rlast' = [op |-> "__init__", arg |-> path, given |-> TRUE,
                 exc |-> PathError(path), ret |-> remote_path',
                 mkdirs |-> <<>>, before |-> rdirs]
    /\ UNCHANGED <<rdirs, rfiles, puts>>
    /\ UNCHANGED <<writerVars, watcherVars, dirVars, svcVars, fmres, simVars, uploaderVars, handlerVars>>

\* The directory a path names on the server: empty components do not count.
Resolve(path) ==
    <<"/">> \o Join(SelectSeq(Split(path), LAMBDA c : c # <<>>))

\* (mutant) mkdir for every segment, existing or not
MissingAlways(dirs, path) == TRUE

\* self.sftp.stat(path) raises FileNotFoundError
Missing(dirs, path) == Resolve(path) \notin dirs \cup {<<"/">>}

\* The loop of _ensure_remote_directory over the segments left, with the
\* directories and the mkdir calls so far; mk is what the server does to mkdir.
RECURSIVE MakeSegments(_, _, _, _, _)
MakeSegments(segs, current_path, dirs, log, mk) ==
    IF segs = <<>> THEN [dirs |-> dirs, log |-> log, exc |-> ""]
    ELSE IF Head(segs) = <<>>
    THEN MakeSegments(Tail(segs), current_path, dirs, log, mk)
    ELSE LET current == current_path \o <<"/">> \o Head(segs)
         IN IF ~Missing(dirs, current)
            THEN MakeSegments(Tail(segs), current, dirs, log, mk)
            ELSE IF mk = "denied"
            THEN [dirs |-> dirs, log |-> Append(log, current), exc |-> "OSError"]
            ELSE MakeSegments(Tail(segs), current, dirs \cup {Resolve(current)},
                              Append(log, current), mk)

\* SFTPUploader._ensure_remote_directory
_ensure_remote_directory(dirs, mk) ==
    IF ~Missing(dirs, remote_path) THEN [dirs |-> dirs, log |-> <<>>, exc |-> ""]
    ELSE MakeSegments(Split(remote_path), <<>>, dirs, <<>>, mk)

MkdirOutcomes == {"ok", "denied"}

\* SFTPUploader.connect from open_sftp on: the channel is stored, then the
\* remote directory is provisioned.
connect_provision(mk) ==
    /\ rpc \in {"built", "connected"}
    /\ connects < MaxConnects
    /\ connects' = connects + 1
    /\ rpc' = "connected"
    /\ LET made_ == _ensure_remote_directory(rdirs, mk)
       IN /\ rdirs' = made_.dirs
          /\ rlast' = [op |-> "connect", arg |-> remote_path, given |-> TRUE,
                       exc |-> made_.exc, ret |-> <<>>,
                       mkdirs |-> made_.log, before |-> rdirs]
    /\ UNCHANGED <<remote_path, rfiles, puts>>
    /\ UNCHANGED <<ucfg, built, upw, sftp, pwWrites, established, ulast, usource,
                   uarchive, uremote, made, upc, pending, idx, uploaded_count,
                   attempted, ustart, ures>>
    /\ UNCHANGED <<writerVars, watcherVars, dirVars, svcVars, fmres, simVars, handlerVars>>

\* The directory trees the server may hold when the uploader is constructed.
RemoteTrees == {{}, {<<"/", "a">>}, {<<"/", "a">>, <<"/", "a", "/", "a">>}}

InitRemotePath ==
    /\ conn = "none"
    /\ cml_metadata = {}
    /\ cml_data = <<>>
    /\ NoCall
    /\ lastWritten = [k \in Keys |-> Absent]
    /\ WatcherIdle
    /\ incoming = {}
    /\ uploads = 0
    /\ ServiceIdle
    /\ FileManagerIdle
    /\ HandlerIdle
    /\ UploaderIdle
    /\ SimulatorIdle
    /\ remote_path = <<>>
    /\ rpc = "new"
    /\ rdirs \in RemoteTrees
    /\ rfiles = {}
    /\ puts = 0
    /\ rlast = NoDirectCall

NextRemotePath ==
    \/ \E path \in RemotePaths : SFTPUploader_init(path)
    \/ \E mk \in MkdirOutcomes : connect_provision(mk)

SpecRemotePath == InitRemotePath /\ [][NextRemotePath]_vars

\* The body shared by upload_file and upload_dataframe_as_csv: sanitize the
\* name, then hand the remote path to the channel.
Transfer(op, name, given, put) ==
    LET err == FilenameError(name)
        path == RemoteFile(_sanitize_filename(name))
    IN /\ puts' = puts + 1
       /\ rfiles' = IF err = "" THEN rfiles \cup {path} ELSE rfiles
       /\ rlast' = [op |-> op, arg |-> name, given |-> given,
                    exc |-> IF err # "" THEN err
                            ELSE IF put = "fail" THEN "SSHException" ELSE "",
                    ret |-> IF err = "" /\ put = "ok" THEN path ELSE <<>>,
                    mkdirs |-> <<>>, before |-> rdirs]
       /\ UNCHANGED <<remote_path, rpc, rdirs>>
       /\ UNCHANGED <<writerVars, watcherVars, dirVars, svcVars, fmres, simVars, uploaderVars, handlerVars>>

\* SFTPUploader.upload_file(local_path, remote_filename)
upload_file(local_path, given, remote_filename, put) ==
    /\ rpc = "connected"
    /\ puts < MaxPuts
    /\ Transfer("upload_file",
                IF given THEN remote_filename ELSE Path_name(local_path), given, put)

\* SFTPUploader.upload_dataframe_as_csv(df, filename)
upload_dataframe_as_csv(given, filename, put) ==
    /\ rpc = "connected"
    /\ puts < MaxPuts
    /\ Transfer("upload_dataframe_as_csv",
                IF given THEN filename ELSE GeneratedName, given, put)

\* A connected uploader whose remote root is /a.
InitFilenames ==
    /\ conn = "none"
    /\ cml_metadata = {}
    /\ cml_data = <<>>
    /\ NoCall
    /\ lastWritten = [k \in Keys |-> Absent]
    /\ WatcherIdle
    /\ incoming = {}
    /\ uploads = 0
    /\ ServiceIdle
    /\ FileManagerIdle
    /\ HandlerIdle
    /\ UploaderIdle
    /\ SimulatorIdle
    /\ remote_path = _validate_remote_path(<<"/", "a">>)
    /\ rpc = "connected"
    /\ rdirs = {remote_path}
    /\ rfiles = {}
    /\ puts = 0
    /\ rlast = NoDirectCall

NextFilenames ==
    \/ \E local \in LocalPaths, put \in PutOutcomes :
          upload_file(local, FALSE, <<>>, put)
    \/ \E fn \in FileNames, put \in PutOutcomes :
          upload_file(<<"a">>, TRUE, fn, put)
    \/ \E put \in PutOutcomes : upload_dataframe_as_csv(FALSE, <<>>, put)
    \/ \E fn \in FileNames, put \in PutOutcomes :
          upload_dataframe_as_csv(TRUE, fn, put)

SpecFilenames == InitFilenames /\ [][NextFilenames]_vars

\* -------------------------------------------- ParserService.process_file
\* f is in neither terminal location (no earlier call left a copy of it)
Fresh(f) == f \notin archived \cup quarantine

\* The outcome of one process_file call; error is the string the call hands to
\* quarantine_file as the reason ("" when it quarantines nothing).
Finish(f, parsed, written, missing, a, q, error) ==
    /\ spc' = "finished"
    /\ pf' = [file |-> f, fresh |-> IF spc = "idle" THEN Fresh(f) ELSE pf.fresh,
              parsed |-> parsed, written |-> written,
              missing |-> missing, archive |-> a, quarantine |-> q,
              error |-> error]

writerRest == <<cml_metadata, cml_data, wpc, wcall, attempt, execs, raised, trace,
                wres, wstart, lastWritten>>

\* (mutant) the file is archived whatever the write did
WriteSucceededAlways(res) == TRUE

\* process_file reaches archive_file only when write_* returned
WriteSucceeded(res) == res.status = "ok"

\* A producer writes a file into incoming/.
Upload(n, body) ==
    /\ Put(n, body)
    /\ UNCHANGED <<writerVars, watcherVars, svcVars, extVars>>

\* process_file up to self.db_writer.connect(): get_parser, parse
process_file(f, q) ==
    /\ spc = "idle"
    /\ wpc = "idle"
    /\ f \in incoming
    /\ Supported(f.name)
    /\ (Parser(f.name) = "rawdata" /\ ~ParseError(f) /\ Frame(f).rows # <<>>)
          => Len(cml_data) + 2 * Len(Frame(f).rows) <= MaxRaw
    /\ sfile' = f
    /\ IF Parser(f.name) = "none"
       THEN /\ quarantine_file(f, q)
            /\ Finish(f, FALSE, FALSE, FALSE, "none", q.fs, "No parser available")
            /\ sdf' = NoFrame
            /\ UNCHANGED writerVars
       ELSE IF ParseError(f)
       THEN /\ quarantine_file(f, q)
            /\ Finish(f, FALSE, FALSE, FALSE, "none", q.fs, parse_error(f))
            /\ sdf' = NoFrame
            /\ UNCHANGED writerVars
       ELSE /\ sdf' = Frame(f)
            /\ DBWriter_connect
            /\ spc' = "connecting"
            /\ pf' = [NoOutcome EXCEPT !.fresh = Fresh(f)]
            /\ UNCHANGED <<incoming, archived, quarantine, notes>>
    /\ UNCHANGED <<pcall, uploads, watcherVars, extVars>>

\* process_file: connect() returned or raised
AfterConnect(q) ==
    /\ spc = "connecting"
    /\ TakeResult
    /\ IF wres.status = "error"
       THEN /\ quarantine_file(sfile, q)
            /\ Finish(sfile, TRUE, FALSE, FALSE, "none", q.fs, "DB connection failed")
       ELSE /\ spc' = "write"
            /\ UNCHANGED <<incoming, archived, quarantine, notes, pf>>
    /\ UNCHANGED <<sfile, sdf, pcall, uploads, watcherVars, extVars>>

\* process_file: the write.  A metadata table goes to write_metadata; a
\* rawdata table first through validate_rawdata_references, whose SELECT
\* needs a live connection (RuntimeError) and can lose it (net = "drop"),
\* and which sends the file to quarantine when a pair is missing.
StartWrite(net, q) ==
    /\ spc = "write"
    /\ wpc = "idle"
    /\ IF Parser(sfile.name) = "metadata"
       THEN /\ DBWriter_write("write_metadata", sdf)
            /\ spc' = "writing"
            /\ UNCHANGED <<incoming, archived, quarantine, notes, pf>>
       ELSE IF sdf.rows = <<>>
       THEN /\ DBWriter_write("write_rawdata", sdf)
            /\ spc' = "writing"
            /\ UNCHANGED <<incoming, archived, quarantine, notes, pf>>
       ELSE IF ~is_connected(conn)
       THEN /\ quarantine_file(sfile, q)
            /\ Finish(sfile, TRUE, FALSE, FALSE, "none", q.fs, "Not connected to database")
            /\ UNCHANGED writerVars
       ELSE IF net # "ok"
       THEN /\ conn' = "closed"
            /\ quarantine_file(sfile, q)
            /\ Finish(sfile, TRUE, FALSE, FALSE, "none", q.fs, "OperationalError")
            /\ UNCHANGED writerRest
       ELSE IF MissingPairs(sdf, cml_metadata) # {}
       THEN /\ quarantine_file(sfile, q)
            /\ Finish(sfile, TRUE, FALSE, TRUE, "none", q.fs, "Missing metadata for CML IDs")
            /\ UNCHANGED writerVars
       ELSE /\ DBWriter_write("write_rawdata", sdf)
            /\ spc' = "writing"
            /\ UNCHANGED <<incoming, archived, quarantine, notes, pf>>
    /\ UNCHANGED <<sfile, sdf, pcall, uploads, watcherVars, extVars>>

\* process_file: write_* returned, and archive_file follows, or it raised;
\* whatever is raised inside the try, archive_file's error included, ends
\* in quarantine_file(filepath, str(e)).
AfterWrite(fsA, q) ==
    /\ spc = "writing"
    /\ TakeResult
    /\ IF WriteSucceeded(wres) /\ ~ArchiveRaises(sfile, fsA)
       THEN /\ archive_file(sfile, fsA)
            /\ Finish(sfile, TRUE, wres.status = "ok", FALSE, fsA, "none", "")
       ELSE IF WriteSucceeded(wres)
       THEN /\ quarantine_file(sfile, q)
            /\ Finish(sfile, TRUE, wres.status = "ok", FALSE, fsA, q.fs, ArchiveError(sfile, fsA))
       ELSE /\ quarantine_file(sfile, q)
            /\ Finish(sfile, TRUE, FALSE, FALSE, "none", q.fs, wres.exc)
    /\ UNCHANGED <<sfile, sdf, pcall, uploads, watcherVars, extVars>>

\* process_file has returned.
ProcessFileReturns ==
    /\ spc = "finished"
    /\ spc' = "idle"
    /\ sfile' = NoFile
    /\ sdf' = NoFrame
    /\ pf' = NoOutcome
    /\ UNCHANGED <<archived, quarantine, notes, pcall>>
    /\ UNCHANGED <<writerVars, watcherVars, dirVars, extVars>>

\* The metadata table may hold rows when the service starts: it is also
\* loaded by other means than this service (parse_netcdf_archive.py).
InitService ==
    /\ conn = "none"
    /\ \E v \in {Absent, "a1"} :
          /\ lastWritten = [k \in Keys |-> IF k = <<"10001", "sublink_1">>
                                           THEN v ELSE Absent]
          /\ cml_metadata = IF v = Absent THEN {}
                            ELSE {[cml_id |-> "10001", sublink_id |-> "sublink_1",
                                   vals |-> v]}
    /\ cml_data = <<>>
    /\ NoCall
    /\ WatcherIdle
    /\ ServiceIdle
    /\ ExtIdle
    /\ incoming = {}
    /\ uploads = 0

NextService ==
    \/ \E u \in Uploadable : Upload(u[1], u[2])
    \/ \E f \in Files, q \in QuarantineOutcomes : process_file(f, q)
    \/ \E ok \in BOOLEAN : AttemptConnect(ok)
    \/ \E q \in QuarantineOutcomes : AfterConnect(q)
    \/ \E net \in {"ok", "drop"}, q \in QuarantineOutcomes : StartWrite(net, q)
    \/ \E out \in NetOutcomes : RunOperation(out)
    \/ \E fsA \in FsOutcomes, q \in QuarantineOutcomes : AfterWrite(fsA, q)
    \/ ProcessFileReturns

SpecService == InitService /\ [][NextService]_vars

\* ------------------------------------------- CSVMetadataParser.parse alone
\* A coordinate cell after pd.to_numeric(errors="coerce"): a number, or NaN
Num(v) == [na |-> FALSE, v |-> v]
Null == [na |-> TRUE, v |-> 0]

LonCols == {"site_0_lon", "site_1_lon"}
LatCols == {"site_0_lat", "site_1_lat"}
CoordCols == LonCols \cup LatCols

\* The cells the tables are drawn from: the bounds of the ranges, the first
\* value beyond them, and an empty cell
LonCells == {Null, Num(180), Num(181)}
LatCells == {Null, Num(0 - 90), Num(0 - 91)}
CoordRows == [site_0_lon : LonCells, site_0_lat : LatCells,
              site_1_lon : LonCells, site_1_lat : LatCells]
CoordTables == SeqsUpTo(CoordRows, MaxCoordRows)

\* Series.notna().any()
notna_any(table, col) == \E i \in DOMAIN table : ~table[i][col].na

\* Series.between(left, right).all(): a comparison with NaN is False
between_all(table, col, left, right) ==
    \A i \in DOMAIN table :
        /\ ~table[i][col].na
        /\ left <= table[i][col].v
        /\ table[i][col].v <= right

\* `if df[col].notna().any():`
Checked(table, col) == notna_any(table, col)

\* One `if df[col].notna().any(): if not df[col].between(..).all():`
ColumnFails(table, col) ==
    /\ Checked(table, col)
    /\ IF col \in LonCols THEN ~between_all(table, col, 0 - 180, 180)
       ELSE ~between_all(table, col, 0 - 90, 90)

\* CSVMetadataParser.parse, the coordinate validation: the error it returns,
\* "" when it returns the table
CoordError(table) ==
    IF ColumnFails(table, "site_0_lon") THEN "Invalid longitude values in site_0_lon"
    ELSE IF ColumnFails(table, "site_1_lon") THEN "Invalid longitude values in site_1_lon"
    ELSE IF ColumnFails(table, "site_0_lat") THEN "Invalid latitude values in site_0_lat"
    ELSE IF ColumnFails(table, "site_1_lat") THEN "Invalid latitude values in site_1_lat"
    ELSE ""

\* CSVMetadataParser.parse(filepath) for a file with all required columns
CSVMetadataParser_parse(table) ==
    /\ pcall.op = "none"
    /\ pcall' = [op |-> "parse", arg |-> table,
                 df |-> IF CoordError(table) = "" THEN table ELSE <<>>,
                 error |-> CoordError(table), ret |-> ""]
    /\ UNCHANGED <<archived, quarantine, notes, spc, sfile, sdf, pf>>
    /\ UNCHANGED <<writerVars, watcherVars, dirVars, extVars>>

InitParser ==
    /\ conn = "none"
    /\ cml_metadata = {}
    /\ cml_data = <<>>
    /\ NoCall
    /\ lastWritten = [k \in Keys |-> Absent]
    /\ WatcherIdle
    /\ ServiceIdle
    /\ ExtIdle
    /\ incoming = {}
    /\ uploads = 0

NextParser == \E table \in CoordTables : CSVMetadataParser_parse(table)

SpecParser == InitParser /\ [][NextParser]_vars

\* ---------------------------- ParserRegistry.get_parser, unsupported files
\* registry.get_parser(Path(name)) called directly
ParserRegistry_get_parser(name) ==
    /\ pcall.op = "none"
    /\ pcall' = [op |-> "get_parser", arg |-> name, df |-> <<>>, error |-> "",
                 ret |-> get_parser(name)]
    /\ UNCHANGED <<archived, quarantine, notes, spc, sfile, sdf, pf>>
    /\ UNCHANGED <<writerVars, watcherVars, dirVars, extVars>>

\* A producer uploads a file no parser takes.
UploadUnsupported(n, body) ==
    /\ Parser(n) = "none"
    /\ Upload(n, body)

InitRegistry == InitParser

NextRegistry ==
    \/ \E name \in PieceNames : ParserRegistry_get_parser(name)
    \/ \E u \in Uploadable : UploadUnsupported(u[1], u[2])
    \/ \E f \in Files, q \in QuarantineOutcomes : process_file(f, q)
    \/ ProcessFileReturns

SpecRegistry == InitRegistry /\ [][NextRegistry]_vars

\* ================================================================== claims
WriteOps == {"write_metadata", "write_rawdata"}
Positions(e) == {i \in DOMAIN trace : trace[i].e = e}
MinOf(S) == CHOOSE x \in S : \A y \in S : x <= y
MaxOf(S) == CHOOSE x \in S : \A y \in S : y <= x
FinishedWrite == wpc = "done" /\ wcall.op \in WriteOps
ResultOfRun(exc) ==
    IF exc = "" THEN Res(wcall.op, "ok", Len(wcall.df.rows), "")
    ELSE Res(wcall.op, "error", 0, exc)

\* C4: a write runs its operation at most twice.  A second run happens only
\* after the first one raised a connection-class error; then the writer has
\* rolled back, discarded the connection and reconnected, in that order,
\* before the one further run, whose outcome is the outcome of the call; when
\* the reconnect fails its error is the outcome and there is no second run.
C4_RetryExactlyOnce ==
    wcall.op \in WriteOps =>
        /\ execs <= 2
        /\ Len(raised) = execs
        /\ execs = 2 => raised[1] \in ConnectionClass
        /\ (wpc = "done" /\ execs >= 1 /\ raised[1] \in ConnectionClass) =>
              /\ Cardinality(Positions("discard")) = 1
              /\ LET x1 == MinOf(Positions("exec"))
                     d == MinOf(Positions("discard"))
                 IN /\ \E r \in Positions("rollback") : x1 < r /\ r < d
                    /\ \E a \in Positions("attempt") : d < a
                    /\ IF trace[Len(trace)].e = "raise"
                       THEN /\ execs = 1
                            /\ wres = Res(wcall.op, "error", 0, "OperationalError")
                            /\ conn = "none"
                       ELSE /\ execs = 2
                            /\ Cardinality(Positions("exec")) = 2
                            /\ \A a \in Positions("attempt") :
                                  d < a => a < MaxOf(Positions("exec"))
                            /\ wres = ResultOfRun(raised[2])

C4_Witness ==
    /\ FinishedWrite
    /\ execs = 2
    /\ raised[1] \in ConnectionClass
    /\ wres.status = "ok"

\* C5: a run of the operation that raises a data-class error ends the call:
\* the transaction was rolled back, the error is the outcome of the call, no
\* further run follows, the tables are as they were when the call began and
\* the connection is still held; when it was the first run, the operation
\* ran exactly once and no reconnect was attempted after it.
C5_DataErrorPropagates ==
    /\ wcall.op \in WriteOps =>
          \A i \in 1..(Len(raised) - 1) : raised[i] # "DataError"
    /\ (FinishedWrite /\ execs >= 1 /\ raised[execs] = "DataError") =>
          /\ wres = Res(wcall.op, "error", 0, "DataError")
          /\ trace[Len(trace)] = Ev("rollback", 1)
          /\ trace[Len(trace) - 1].e = "exec"
          /\ cml_metadata = wstart.meta
          /\ cml_data = wstart.data
          /\ conn = "open"
          /\ raised[1] = "DataError" =>
                /\ execs = 1
                /\ Positions("discard") = {}
                /\ \A a \in Positions("attempt") : a < MinOf(Positions("exec"))
                /\ wstart.conn = "open" => Positions("attempt") = {}

C5_Witness ==
    /\ FinishedWrite
    /\ wres.exc = "DataError"
    /\ execs = 1
    /\ wstart.conn = "open"
    /\ wstart.meta # {}

\* C6: connect() with a connection held attempts nothing.  Otherwise the
\* attempts are numbered 1, 2, 3 at most, it stops at the first success, and
\* it sleeps 2 s after a failed first and 4 s after a failed second attempt
\* and not after the third; three failures raise and leave no connection.
C6_ConnectBackoff ==
    /\ attempt <= max_retries
    /\ (wpc = "done" /\ wcall.op = "connect") =>
          IF wstart.conn # "none"
          THEN trace = <<>> /\ conn = wstart.conn /\ wres.status = "ok"
          ELSE \/ /\ trace \in { <<Ev("attempt", 1)>>,
                                 <<Ev("attempt", 1), Ev("sleep", 2), Ev("attempt", 2)>>,
                                 <<Ev("attempt", 1), Ev("sleep", 2), Ev("attempt", 2),
                                   Ev("sleep", 4), Ev("attempt", 3)>> }
                  /\ wres.status = "ok"
                  /\ conn = "open"
               \/ /\ trace = <<Ev("attempt", 1), Ev("sleep", 2), Ev("attempt", 2),
                               Ev("sleep", 4), Ev("attempt", 3), Ev("raise", 3)>>
                  /\ wres = Res("connect", "error", 0, "OperationalError")
                  /\ conn = "none"

C6_Witness ==
    /\ wpc = "done"
    /\ wcall.op = "connect"
    /\ wres.status = "ok"
    /\ Len(trace) = 5

C8_UpsertLastWriteWins ==
    /\ \A r1, r2 \in cml_metadata : Key(r1) = Key(r2) => r1 = r2
    /\ \A k \in Keys :
          IF lastWritten[k] = Absent
          THEN \A r \in cml_metadata : Key(r) # k
          ELSE [cml_id |-> k[1], sublink_id |-> k[2], vals |-> lastWritten[k]]
                  \in cml_metadata
    /\ (FinishedWrite /\ wcall.op = "write_metadata" /\ wres.status = "ok") =>
          Upsert(cml_metadata, wcall.df.rows) = cml_metadata

C8_Witness ==
    /\ FinishedWrite
    /\ wcall.op = "write_metadata"
    /\ wres.status = "ok"
    /\ Cardinality(wstart.meta) = 2
    /\ \E r \in wstart.meta : \E q \in cml_metadata :
          Key(r) = Key(q) /\ r.vals # q.vals
    /\ \E r \in wstart.meta : r \in cml_metadata

\* C9: cml_data is append-only and a write_rawdata call that returns n has
\* added exactly n rows to it.
C9_ReturnCountsRowsAdded ==
    /\ Len(cml_data) >= Len(wstart.data)
    /\ SubSeq(cml_data, 1, Len(wstart.data)) = wstart.data
    /\ (FinishedWrite /\ wcall.op = "write_rawdata" /\ wres.status = "ok") =>
          Len(cml_data) = Len(wstart.data) + wres.value

C3_AtMostOncePerFile ==
    \A n \in AllNames : calls[n] <= placed[n]

\* C1 (as stated): when process_file(f) has returned, f is no longer in
\* incoming/ and sits in exactly one terminal location: archived/ when it was
\* parsed and written successfully, quarantine/ otherwise.
C1_ExactlyOneTerminalLocation ==
    spc = "finished" =>
        /\ pf.file \notin incoming
        /\ IF pf.parsed /\ pf.written
           THEN pf.file \in archived /\ pf.file \notin quarantine
           ELSE pf.file \in quarantine /\ pf.file \notin archived

\* The last move process_file attempted for f
LastMove == IF pf.quarantine # "none" THEN pf.quarantine ELSE pf.archive

\* C1 (amended): when process_file(f) has returned and the last move it
\* attempted went through, f is no longer in incoming/ and, no earlier call
\* having left a copy of f behind, sits in exactly one of archived/ and
\* quarantine/: in archived/ exactly when it was parsed, written
\* successfully and archive_file did not fail.  When that move did not go
\* through, f is still in incoming/.
C1_TerminalLocationWhenMoved ==
    spc = "finished" =>
        IF LastMove = "moved"
        THEN /\ pf.file \notin incoming
             /\ pf.fresh =>
                  /\ (pf.file \in archived) # (pf.file \in quarantine)
                  /\ pf.file \in archived <=>
                       (pf.parsed /\ pf.written /\ pf.archive = "moved")
        ELSE pf.file \in incoming

C1_Witness ==
    /\ spc = "finished"
    /\ pf.fresh /\ pf.parsed /\ pf.written /\ pf.archive = "moved"
    /\ Parser(pf.file.name) = "rawdata"
    /\ Len(cml_data) > 0
    /\ pf.file \in archived
    /\ pf.file \notin incoming \cup quarantine

\* C10: a rawdata file with (cml_id, sublink_id) pairs missing from the
\* metadata table still has its rows inserted and is archived, not
\* quarantined.
C10_MissingReferenceDoesNotBlock ==
    (spc = "finished" /\ pf.missing) =>
        /\ pf.written
        /\ pf.file \in archived
        /\ pf.file \notin quarantine

\* C11: after any sequence of quarantine_file calls on existing files, every
\* file in quarantine/ has its note <name>.error.txt; a call whose move and
\* copy both failed has left the note <name>.orphan.error.txt; and no such
\* call raises.
C11_EveryQuarantinedFileHasNote ==
    /\ \A f \in quarantine : \E x \in notes : x.name = f.name /\ ~x.orphan
    /\ (fmres.op = "quarantine_file" /\ fmres.existed) =>
          /\ fmres.exc = ""
          /\ fmres.fs = "failed" =>
                \E x \in notes : x.name = fmres.file.name /\ x.orphan

\* C12: quarantine_file on a path whose source does not exist moves nothing,
\* writes only the note <name>.error.txt holding "Original file not found",
\* the path and the reason, returns the note's path and does not raise.
C12_MissingSourceNoteOnly ==
    (fmres.op = "quarantine_file" /\ ~fmres.existed) =>
        /\ fmres.exc = ""
        /\ fmres.ret = Path("quarantine", fmres.file.name, ".error.txt")
        /\ [name |-> fmres.file.name, orphan |-> FALSE, text |-> NotFoundNote]
              \in notes
        /\ {x \in notes : x.name # fmres.file.name \/ x.orphan}
              = {x \in fmres.before.notes : x.name # fmres.file.name \/ x.orphan}
        /\ incoming = fmres.before.incoming
        /\ quarantine = fmres.before.quarantine
        /\ archived = fmres.before.archived

\* C13: every note quarantine_file wrote holds a UTC timestamp, the reason
\* and the original path.
C13_NoteHoldsTimestampReasonPath ==
    \A x \in notes : {"timestamp", "reason", "path"} \subseteq x.text

\* C14: when archive_file(f) returns dest, dest is archived/<today>/<name of
\* f>, dest exists and f is gone from its source path, after a move and
\* after the copy fallback.
C14_ArchivedAndSourceGone ==
    (fmres.op = "archive_file" /\ fmres.exc = "") =>
        /\ fmres.ret = Path("archived", fmres.file.name, "")
        /\ fmres.file \in archived
        /\ fmres.file \notin incoming

\* C15: when move and copy both fail, archive_file raises a RuntimeError
\* ("Failed to archive") and creates no archive entry.
C15_BothFailRaisesRuntimeError ==
    (fmres.op = "archive_file" /\ fmres.existed /\ fmres.fs = "failed") =>
        /\ fmres.exc = "RuntimeError"
        /\ fmres.ret = NoPath
        /\ archived = fmres.before.archived


\* ---- the uploader's claims
InBatch == upc \in {"batch", "done"}

Attempts == {attempted[i] : i \in DOMAIN attempted}

\* C16: during upload_pending_files a file reaches the archive directory only
\* after its own remote transfer succeeded in that call; a file whose transfer
\* raised was not moved and is still in the source directory.
C16_ArchiveOnlyAfterTransfer ==
    /\ uarchive \subseteq uremote
    /\ InBatch =>
          /\ \A f \in uarchive \ ustart :
                \E a \in Attempts : a.file = f /\ a.put = ""
          /\ \A a \in Attempts :
                a.put # "" => /\ a.move = "none"
                              /\ a.file \in usource
                              /\ a.file \notin uarchive \ ustart

C16_Witness ==
    /\ upc = "done"
    /\ \E a \in Attempts : a.put = "" /\ a.move = "moved" /\ a.file \in uarchive
    /\ \E a \in Attempts : a.put # "" /\ a.file \in usource

\* C17: a failure on one file never ends upload_pending_files with an
\* exception; the call returns after every file that was pending at its start
\* has been attempted exactly once, in order.
C17_BatchNeverAborts ==
    InBatch =>
        /\ ures.exc = ""
        /\ Len(attempted) = idx - 1
        /\ idx <= Len(pending) + 1
        /\ \A i \in DOMAIN attempted : attempted[i].file = pending[i]
        /\ \A i, j \in DOMAIN pending : pending[i] = pending[j] => i = j
        /\ upc = "done" => /\ ures.returned
                           /\ Len(attempted) = Len(pending)

C17_Witness ==
    /\ upc = "done"
    /\ Len(pending) >= 2
    /\ attempted[1].put # ""
    /\ attempted[2].put = ""
    /\ Len(attempted) = Len(pending)

\* C18: when upload_pending_files returns, the returned integer is the number
\* of pending files whose transfer succeeded, and each file that was pending is
\* in exactly one place: the archive if its transfer succeeded, the source
\* directory otherwise.
C18_CountAndPlaces ==
    ures.returned =>
        /\ ures.value = Cardinality({i \in DOMAIN attempted : attempted[i].put = ""})
        /\ \A a \in Attempts :
              /\ (a.file \in usource) # (a.file \in uarchive)
              /\ a.put = "" <=> a.file \in uarchive

\* C19: connect() makes a network connection attempt only if exactly one of
\* password and private key is configured; with both or neither it raises
\* without an attempt.
C19_NoAttemptUnlessExactlyOne ==
    connects > 0 =>
        /\ ulast.attempted => ExactlyOne(ucfg)
        /\ ~ExactlyOne(ucfg) => ulast.exc # ""

\* C20: the stored password is cleared at most once, namely when a connection
\* has been established, and stays cleared; a failed connect leaves it as
\* configured.
C20_PasswordClearedAfterConnect ==
    /\ pwWrites <= 1
    /\ established => upw = "none"
    /\ ~established => /\ upw = (IF ucfg.password THEN "secret" ELSE "none")
                       /\ pwWrites = 0

C20_Witness ==
    /\ ucfg.password
    /\ established
    /\ pwWrites = 1
    /\ upw = "none"
    /\ connects = 2


\* ---- the uploader's paths and names
\* A filename that is its own basename, made of allow-listed characters only,
\* and not hidden.
GoodName(n) ==
    /\ n # <<>>
    /\ \A i \in DOMAIN n : n[i] \in SafeNameChars
    /\ n[1] # "."

UploadOps == {"upload_file", "upload_dataframe_as_csv"}

\* C21: on a connected uploader a transfer is issued only for a filename that
\* is its own basename, holds allow-listed characters only and does not start
\* with a dot; any other filename makes upload_file and
\* upload_dataframe_as_csv raise ValueError before a transfer call, so every
\* remote path written is <remote root>/<such a name>.
C21_OnlySafeNamesTransferred ==
    /\ \A p \in rfiles :
          \E n \in FileNames \cup {GeneratedName} :
              GoodName(n) /\ p = remote_path \o <<"/">> \o n
    /\ rlast.op \in UploadOps /\ ~GoodName(rlast.arg) => rlast.exc = "ValueError"


Absolute(t) == t # <<>> /\ t[1] = "/"

DoubleSeparator(t) == \E i \in 1..(Len(t) - 1) : t[i] = "/" /\ t[i + 1] = "/"

\* C22: construction fails unless the remote root is absolute, holds no ".."
\* and holds allow-listed characters only (a path with ".." fails with the
\* traversal error); for every accepted input the stored path is absolute,
\* holds no ".." and no duplicate separator.
C22_RemotePathValidated ==
    rlast.op = "__init__" =>
        /\ rlast.exc = "" =>
              /\ Absolute(rlast.arg)
              /\ ~HasDotDot(rlast.arg)
              /\ \A i \in DOMAIN rlast.arg : rlast.arg[i] \in SafePathChars
        /\ Absolute(rlast.arg) /\ HasDotDot(rlast.arg) =>
              rlast.exc = "ValueError: path traversal"
        /\ rlast.exc = "" =>
              /\ Absolute(remote_path)
              /\ ~HasDotDot(remote_path)
              /\ ~DoubleSeparator(remote_path)


\* The remote root and the directories above it, as the server names them.
Segments == SelectSeq(Split(remote_path), LAMBDA c : c # <<>>)

Ancestors == {<<"/">> \o Join(SubSeq(Segments, 1, k)) : k \in 1..Len(Segments)}

IsPrefix(t, u) == Len(t) < Len(u) /\ SubSeq(u, 1, Len(t)) = t

\* C24: when connect() has succeeded the remote root and every directory
\* above it exist; the missing ones were created once each, parent before
\* child, the existing ones were not created again, and provisioning a
\* server that already holds them creates nothing.
C24_RemoteRootProvisioned ==
    rlast.op = "connect" /\ rlast.exc = "" =>
        /\ rpc = "connected"
        /\ Ancestors \subseteq rdirs
        /\ {Resolve(rlast.mkdirs[i]) : i \in DOMAIN rlast.mkdirs}
              = Ancestors \ rlast.before
        /\ \A i, j \in DOMAIN rlast.mkdirs :
              i < j => IsPrefix(rlast.mkdirs[i], rlast.mkdirs[j])
        /\ Ancestors \subseteq rlast.before => rlast.mkdirs = <<>>

C24_Witness ==
    /\ rlast.op = "connect"
    /\ rlast.exc = ""
    /\ connects = 2
    /\ rlast.mkdirs = <<>>
    /\ Cardinality(Ancestors \ UNION RemoteTrees) >= 2
    /\ Ancestors \subseteq rlast.before


\* C25: when the callback raises for a file, on_created returns normally and
\* nothing reaches the watcher, which goes on dispatching: a later creation
\* event for another file still invokes the callback for that file.
C25_CallbackExceptionContained ==
    /\ [](lastEnd.outcome = "raise" => phase # "crashed")
    /\ [][hpc = "callback" /\ hpc' = "idle" =>
             /\ phase' = phase
             /\ processing' = processing \ {hcur}]_vars
    /\ [][/\ lastEnd.outcome = "raise"
          /\ hpc = "idle"
          /\ phase = "watching"
          /\ queue # <<>>
          /\ ~Head(queue).is_directory
          /\ Supported(Head(queue).src_path)
          /\ queue' = Tail(queue)
          => hpc' = "callback" /\ hcur' = Head(queue).src_path]_vars

C25_Witness ==
    /\ lastEnd.outcome = "raise"
    /\ hpc = "callback"
    /\ hcur # lastEnd.n
    /\ phase = "watching"


\* ---- the stabilization wait
Queued(n) == \E i \in DOMAIN queue : queue[i] = Event(n, FALSE)

Running(n) == hpc = "callback" /\ hcur = n

\* Every creation event of a supported file leads to its callback; a handler
\* that took such an event waits or dispatches, and a wait ends in the
\* dispatch; directories and other extensions never reach the callback.
NeverDropped ==
    /\ \A n \in WaitNames : Supported(n) => (Queued(n) ~> Running(n))
    /\ [][/\ hpc = "idle"
          /\ queue # <<>>
          /\ queue' = Tail(queue)
          /\ ~Head(queue).is_directory
          /\ Supported(Head(queue).src_path)
          => \/ hpc' = "waiting" /\ hcur' = Head(queue).src_path
             \/ hpc' = "callback" /\ hcur' = Head(queue).src_path]_vars
    /\ [][hpc = "waiting" /\ hpc' # "waiting" =>
             hpc' = "callback" /\ hcur' = hcur]_vars
    /\ [](\A n \in AllNames \cup {DirName} : ~Supported(n) => ~Running(n))
    /\ [](\A n \in AllNames : ~Supported(n) => calls[n] = 0)

\* C26 as stated: every creation event of a supported file leads to its
\* callback, the wait before it having ended on two equal non-zero size
\* reads or on the timeout; directories and other extensions never do.
C26_DispatchedAfterStableOrTimeout ==
    /\ NeverDropped
    /\ [](hpc = "callback" => wexit \in {"stable", "timeout"})

\* C26 (amended): every creation event of a supported file leads to its
\* callback; the wait before it ended on two equal non-zero size reads, on
\* the timeout, or at once because no file was at the path any more;
\* directories and other extensions never reach the callback.
C26_DispatchedNeverDropped ==
    /\ NeverDropped
    /\ [](hpc = "callback" => wexit \in {"stable", "timeout", "missing"})
    /\ [][hpc = "waiting" /\ hpc' = "callback" =>
             \/ /\ wexit' = "stable"
                /\ Exists(hcur)
                /\ fsize[hcur] = last_size
                /\ last_size > 0
             \/ /\ wexit' = "timeout"
                /\ elapsed >= timeout * sleeps_per_second]_vars
    /\ [][hpc = "idle" /\ hpc' = "callback" =>
             wexit' = "missing" /\ ~Exists(hcur')]_vars

C26_Witness ==
    /\ Running(DataName)
    /\ wexit = "timeout"
    /\ calls[DataName] = 2
    /\ lastEnd = [n |-> DataName, outcome |-> "return"]


\* C27: once FileWatcher.stop() has returned no callback dispatch is in
\* progress and none starts afterwards; at shutdown the database connection
\* is closed only after stop() has returned, so no callback runs against a
\* closed writer.
C27_StopJoinsDispatch ==
    /\ [](phase \in {"stopped", "down"} =>
             /\ hpc = "idle"
             /\ processing = {}
             /\ \A n \in AllNames : active[n] = 0)
    /\ [][(phase \in {"stopped", "down"}) => (calls' = calls /\ hpc' = "idle")]_vars
    /\ [][(wcall'.op = "close" /\ wcall.op # "close") => phase = "stopped"]_vars
    /\ [](wcall.op = "close" => phase = "down" /\ hpc = "idle")

C27_Witness ==
    /\ phase = "down"
    /\ wcall.op = "close"
    /\ lastEnd.n # NoName
    /\ queue # <<>>

\* process_file(pf.file) has returned and the parser had an error for the file
ParseFailed ==
    /\ spc = "finished"
    /\ Parser(pf.file.name) # "none"
    /\ parse_error(pf.file) # ""

ValidateReturned ==
    wpc = "done" /\ wcall.op = "validate_rawdata_references"
Queried == Positions("select") # {}
InputPairs == {Key(wcall.df.rows[i]) : i \in 1..Len(wcall.df.rows)}
StoredPairs == {Key(r) : r \in cml_metadata}

\* C29: validate_rawdata_references returns (true, []) for empty input
\* without querying the database; for non-empty input that it answers, the
\* list it returns holds exactly the input's distinct pairs that are not in
\* the metadata table, in ascending order with no pair twice, and allPresent
\* is true exactly when the list is empty.
C29_MissingPairsSortedDifference ==
    ValidateReturned =>
        IF wcall.df.rows = <<>>
        THEN /\ wres.status = "ok"
             /\ wres.value = [ok |-> TRUE, missing |-> <<>>]
             /\ ~Queried
        ELSE wres.status = "ok" =>
             LET missing == wres.value.missing
             IN  /\ Queried
                 /\ {missing[i] : i \in DOMAIN missing} = InputPairs \ StoredPairs
                 /\ \A i, j \in DOMAIN missing :
                       i < j => TupleLess(missing[i], missing[j])
                 /\ wres.value.ok <=> missing = <<>>

C29_Witness ==
    /\ ValidateReturned
    /\ wres.status = "ok"
    /\ Len(wcall.df.rows) = 3
    /\ wcall.df.rows[1] = wcall.df.rows[3]
    /\ StoredPairs # {}
    /\ ~(StoredPairs \subseteq InputPairs)
    /\ InputPairs \cap StoredPairs # {}
    /\ wres.value = [ok |-> FALSE, missing |-> <<<<"nan", "sublink_2">>>>]

\* process_file(pf.file) has returned for a rawdata file whose row has no
\* link_id, and the database did not fail it
NoLinkFileDone ==
    /\ spc = "finished"
    /\ Parser(pf.file.name) = "rawdata"
    /\ pf.file.body = "nolink"
    /\ ~(pf.parsed /\ ~pf.written /\ ~pf.missing)

\* C30: a rawdata row whose link_id is missing is not dropped: the parsed
\* table has as many rows as the file, and once the file went through the
\* pipeline the row is stored in cml_data with the link_id "nan".
C30_MissingLinkIdStoredAsNan ==
    NoLinkFileDone =>
        /\ pf.parsed
        /\ Len(Frame(pf.file).rows) = FileRows(pf.file)
        /\ \A i \in DOMAIN Frame(pf.file).rows : Frame(pf.file).rows[i].cml_id = "nan"
        /\ \E i \in DOMAIN cml_data : cml_data[i].cml_id = "nan"

\* C23: on every path through connect(), RejectPolicy is installed before
\* client.connect is called, also when the known-hosts file is missing, which
\* only logs a warning and lets the call go on; no auto-trust policy is ever
\* installed.
C23_RejectPolicyBeforeConnect ==
    LET steps == ulast.steps IN
    /\ \A i \in DOMAIN steps :
          steps[i] = "connect" => \E j \in 1..(i - 1) : steps[j] = "RejectPolicy"
    /\ \A i \in DOMAIN steps : steps[i] \notin {"AutoAddPolicy", "WarningPolicy"}
    /\ ulast.attempted <=> \E i \in DOMAIN steps : steps[i] = "connect"
    /\ ulast.hosts = "missing" =>
          /\ ulast.attempted \/ ulast.exc = "ValueError"
          /\ ulast.attempted => ulast.exc = "SSHException"

C23_Witness ==
    /\ ulast.hosts = "missing"
    /\ ulast.attempted
    /\ ulast.steps = <<"load_host_keys", "RejectPolicy", "connect">>
    /\ ulast.exc = "SSHException"
    /\ sftp = "none"

\* ---- the parsers by themselves
Parsed == pcall.op = "parse"
InRange(col, cell) ==
    IF col \in LonCols THEN 0 - 180 <= cell.v /\ cell.v <= 180
    ELSE 0 - 90 <= cell.v /\ cell.v <= 90
OutOfRange(table, col) ==
    \E i \in DOMAIN table : ~table[i][col].na /\ ~InRange(col, table[i][col])
ColumnNamed(error) ==
    {col \in CoordCols :
        error = (IF col \in LonCols THEN "Invalid longitude values in "
                 ELSE "Invalid latitude values in ") \o col}

\* C31: for a metadata file with at least one longitude outside [-180, 180]
\* or latitude outside [-90, 90], parse returns (None, error) and the error
\* names a coordinate column that holds an out-of-range value.
C31_OutOfRangeColumnNamed ==
    (Parsed /\ \E col \in CoordCols : OutOfRange(pcall.arg, col)) =>
        /\ pcall.error # ""
        /\ pcall.df = <<>>
        /\ \E col \in ColumnNamed(pcall.error) : OutOfRange(pcall.arg, col)

\* C32: a metadata file with all required columns (and at least one row)
\* passes exactly when every non-null coordinate is in range and no
\* coordinate column is entirely null.
C32_NonNullInRangeAndNoNullColumn ==
    (Parsed /\ pcall.arg # <<>>) =>
        (pcall.error = "" <=>
            /\ \A col \in CoordCols : ~OutOfRange(pcall.arg, col)
            /\ \A col \in CoordCols : \E i \in DOMAIN pcall.arg : ~pcall.arg[i][col].na)

\* The pieces that differ in case only
CasePairs == {{"cml_data_", "CML_DATA_"}, {"cml_metadata_", "Cml_Metadata_"},
              {".csv", ".CSV"}}
SameButCase(a, b) ==
    /\ Len(a) = Len(b)
    /\ \A i \in DOMAIN a : a[i] = b[i] \/ {a[i], b[i]} \in CasePairs
MatchesPattern(p, name) == can_parse(p, name)

\* C33: get_parser classifies every filename deterministically and
\* case-insensitively: the rawdata parser for a name matching the data
\* pattern, the metadata parser for a name matching the metadata pattern,
\* None for any other; no name matches both patterns; and a file classified
\* None is quarantined by process_file as unsupported without being parsed
\* or written.
C33_ClassifiedByPattern ==
    /\ pcall.op = "get_parser" =>
          /\ pcall.ret = "rawdata" <=> MatchesPattern("rawdata", pcall.arg)
          /\ pcall.ret = "metadata" <=> MatchesPattern("metadata", pcall.arg)
          /\ pcall.ret = "none" <=>
                ~(MatchesPattern("rawdata", pcall.arg)
                    \/ MatchesPattern("metadata", pcall.arg))
          /\ ~(MatchesPattern("rawdata", pcall.arg)
                /\ MatchesPattern("metadata", pcall.arg))
          /\ \A other \in PieceNames :
                SameButCase(pcall.arg, other) => get_parser(other) = pcall.ret
    /\ (spc = "finished" /\ Parser(pf.file.name) = "none") =>
          /\ ~pf.parsed /\ ~pf.written
          /\ pf.error = "No parser available"
          /\ pf.quarantine \in FsOutcomes
          /\ pf.archive = "none"
          /\ pf.quarantine \in {"moved", "copied"} => pf.file \in quarantine
          /\ pf.file \notin archived
    /\ conn = "none" /\ wpc = "idle" /\ trace = <<>>
    /\ cml_metadata = {} /\ cml_data = <<>>

C33_Witness ==
    /\ pcall.op = "get_parser"
    /\ pcall.arg = <<"Cml_Metadata_", "cml_data_", ".CSV">>
    /\ pcall.ret = "metadata"
    /\ spc = "finished"
    /\ pf.file.name = OtherName
    /\ pf.quarantine = "moved"
    /\ pf.file \in quarantine
    /\ pf.file \notin incoming

\* C34: write_metadata and write_rawdata called with an empty (or absent)
\* table return 0 and perform no I/O: no connection attempt, no cursor, no
\* statement, no commit; the connection and the tables are as they were
\* when the call began.
C34_EmptyTableNoIO ==
    (wcall.op \in WriteOps /\ wcall.df.rows = <<>>) =>
        /\ wpc = "done"
        /\ wres = Res(wcall.op, "ok", 0, "")
        /\ trace = <<>>
        /\ attempt = 0
        /\ execs = 0
        /\ raised = <<>>
        /\ conn = wstart.conn
        /\ cml_metadata = wstart.meta
        /\ cml_data = wstart.data

C34_Witness ==
    /\ wcall.op = "write_rawdata"
    /\ wcall.df.rows = <<>>
    /\ wres.value = 0
    /\ conn = "closed"
    /\ cml_metadata # {}

\* The write of process_file(pf.file) returned normally: the file's rows
\* were committed
RowsCommitted == pf.written /\ Frame(pf.file).rows # <<>>

\* C35: process_file places a file in quarantine/ only if none of its rows
\* were persisted, and archives it only after its rows were committed: no
\* file whose rows are in the database ends up in quarantine/.
C35_QuarantinedOnlyIfNothingPersisted ==
    (spc = "finished" /\ pf.fresh) =>
        /\ pf.file \in quarantine => ~RowsCommitted
        /\ pf.file \in archived => pf.written

\* C36: a metadata file with rows that passes the parser's validation is
\* persisted by write_metadata and archived by process_file, the database
\* being reachable: the table the parser returns is accepted by the writer
\* and the file is not quarantined.
C36_ValidMetadataPersistedAndArchived ==
    (/\ spc = "finished"
     /\ Parser(pf.file.name) = "metadata"
     /\ pf.file.body = "rows"
     /\ pf.error # "DB connection failed") =>
        /\ pf.parsed
        /\ pf.written
        /\ pf.quarantine = "none"
        /\ pf.file \notin quarantine
        /\ pf.archive = "moved" => pf.file \in archived

\* C37: when the connection the writer holds has died between two files, the
\* next valid rawdata file is not quarantined because of the stale
\* connection: process_file replaces it before the reference check and the
\* write.
C37_StaleConnectionReplaced ==
    (/\ spc = "finished"
     /\ Parser(pf.file.name) = "rawdata"
     /\ pf.parsed) =>
        pf.error # "Not connected to database"

\* The service keeps running: start() neither crashed in the startup scan nor
\* was interrupted.
KeepsRunning == phase \in {"starting", "scan", "watching"}

\* C38: every file with a supported extension that is created in incoming/
\* after start() has begun, also during the startup scan and before the
\* watcher is started, is eventually handed to process_file (which archives
\* or quarantines it), unless the service stops running.
C38_CreatedAfterStartEventuallyProcessed ==
    \A n \in AllNames :
        (Supported(n) /\ placed[n] > 0) ~> (calls[n] > 0 \/ ~KeepsRunning)

\* A file the batch picks up and whose name passes _sanitize_filename.
ValidlyNamed(f) == f.name.ext = ".csv" /\ ~Unsafe(f.name)

\* One authentication method is configured and its key file can be loaded.
Configured == ExactlyOne(ucfg) /\ ucfg.key # "bad"

\* C39: if the server is eventually reachable for good, every validly named
\* file staged in the source directory is eventually transferred and moved
\* to the archive directory, also when the first connect failed or the
\* session was lost in an earlier cycle.
C39_StagedEventuallyUploaded ==
    (Configured /\ <>[](server = "up")) =>
        \A f \in LocalFiles :
            (f \in usource /\ ValidlyNamed(f)) ~> (f \in uremote /\ f \in uarchive)

\* This step is an archive_file call that returned after moving a file that
\* no earlier call had archived.
ArchiveCallReturned ==
    /\ fmres' # fmres
    /\ fmres'.op = "archive_file"
    /\ fmres'.exc = ""
    /\ fmres'.fs = "moved"
    /\ fmres'.file \notin archived

\* C40: every archive_file call that returns adds one entry under the
\* archive root and destroys none, so that the number of archived files
\* equals the number of calls that returned, also for two files of the same
\* name archived on the same day.
C40_OneArchiveEntryPerCall ==
    [][ArchiveCallReturned =>
          /\ Cardinality(archived') = Cardinality(archived) + 1
          /\ archived \subseteq archived']_vars

====
